---- MODULE Spec2Model ----
(***************************************************************************)
(* Room / session state machine of the Vector-Whiteboard relay server.     *)
(* src/server.js holds two server variants: the "simple" single-professor  *)
(* server (lines 1-834) and the "multi" multi-professor server with a      *)
(* grace-period deletion timer (lines 2319-2958).  Both are modelled; the  *)
(* variable variant says which one a behaviour runs.                       *)
(*                                                                         *)
(* A handler is an operator from the registries and the event to the new   *)
(* registries and the events it emits; an action applies one handler.      *)
(* A payload is an object, or null; a name or key in it may be a number.   *)
(* The read-only HTTP endpoints and the logging are not modelled, and the  *)
(* multi server's lastActivity stamps are abstracted by a cleanup that may *)
(* find old enough any room that has no grace-period callback pending.     *)
(***************************************************************************)
EXTENDS Integers, Sequences, FiniteSets, TLC

(***************************************************************************)
(* Bounds of the model.                                                    *)
(***************************************************************************)
NumSockets == 2
MaxDraws == 2
NumCrowd == 99
DeepFill == 999
NumFaculty == 2
MaxTimers == 2

(***************************************************************************)
(* Program constants.                                                      *)
(***************************************************************************)
NameMax == 50
KeyMin == 3
KeyMax == 20
SimpleRoomCapacity == 100
SimpleHistoryLimit == 1000
SimpleHistoryKeep == 500
MultiProfessorLimit == 3
MultiStudentLimit == 100
MultiHistoryLimit == 1000
MultiHistoryKeep == 1000

Sockets == 1..NumSockets
Null == 0

(***************************************************************************)
(* JavaScript values of the event payloads.  A string is a sequence of     *)
(* one-character strings; every value carries its type tag.                *)
(***************************************************************************)
Undef == [t |-> "undef"]
Str(s) == [t |-> "str", v |-> s]
Arr(a) == [t |-> "arr", v |-> a]
Bool(b) == [t |-> "bool", v |-> b]
Num(n) == [t |-> "num", v |-> n]
\* an event sent with null, or with no argument, in place of its payload object
NullPayload == [t |-> "null"]
\* an object { type, path }; userId and role are fields a client may add
Obj(type, path) ==
  [t |-> "obj", type |-> type, path |-> path, userId |-> Undef, role |-> Undef]

Truthy(x) ==
  CASE x.t = "undef" -> FALSE
    [] x.t = "str" -> Len(x.v) > 0
    [] x.t = "bool" -> x.v
    [] OTHER -> TRUE

IsArray(x) == x.t = "arr"

IsSpace(c) == c = " "

\* fault: a toUpperCase() that leaves every letter as typed
ToUpperCharAsTyped(c) == c

ToUpperChar(c) ==
  CASE c = "a" -> "A"
    [] c = "b" -> "B"
    [] c = "x" -> "X"
    [] c = "y" -> "Y"
    [] OTHER -> c

ToUpperCase(s) == [i \in 1..Len(s) |-> ToUpperChar(s[i])]

RECURSIVE TrimLeft(_)
TrimLeft(s) == IF s # <<>> /\ IsSpace(Head(s)) THEN TrimLeft(Tail(s)) ELSE s

RECURSIVE TrimRight(_)
TrimRight(s) ==
  IF s # <<>> /\ IsSpace(s[Len(s)]) THEN TrimRight(SubSeq(s, 1, Len(s) - 1)) ELSE s

Trim(s) == TrimRight(TrimLeft(s))

IsAlnumUpper(c) == c \in {"A", "B", "X", "Y", "1", "2"}

Repeat(c, n) == [i \in 1..n |-> c]

(***************************************************************************)
(* Inputs the clients send.                                                *)
(***************************************************************************)
NameAl == <<"A", "l">>
KeyAB1 == <<"A", "B", "1">>
KeyXY2 == <<"X", "Y", "2", "X", "Y", "2">>

Names ==
  { Undef, Str(<<>>), Str(<<" ">>), Str(NameAl), Str(<<" ", "A", "l", " ">>),
    Str(Repeat("A", NameMax)), Str(Repeat("A", NameMax + 1)) }

RawKeys ==
  { Undef, Str(<<"a", "b", "1">>), Str(KeyAB1), Str(<<" ", "a", "b", "1">>),
    Str(KeyXY2), Str(<<"a", "b">>), Str(<<"a", "-", "b">>),
    Str(Repeat("A", KeyMax)), Str(Repeat("A", KeyMax + 1)) }

CreateFlags == { Undef, Bool(TRUE), Bool(FALSE) }

\* outcomes of generateRoomKey(): Math.random().toString(36).substring(2, 8)
\* is six characters, or fewer when the fraction has a short base-36 expansion
\* (0.5 is "0.i"), in upper case
GenKeys == { Str(KeyXY2), Str(<<"X">>) }

TypeDraw == Str(<<"d", "r", "a", "w">>)
PathValid == Arr(<<1, 2>>)
Paths == { Undef, Str(<<"x">>), Arr(<<>>), PathValid }

\* draw-command payloads: the flat shape { type, path, ... } the client sends
\* (src/server.js 1934-1941) and the nested shape { command: { type, path } }.
FlatDraw(p) ==
  [ path |-> p, type |-> TypeDraw, command |-> Undef, userId |-> Undef, role |-> Undef ]
NestedDraw(c) ==
  [ path |-> Undef, type |-> Undef, command |-> c, userId |-> Undef, role |-> Undef ]

\* the identity a client may assert in a draw payload: a user id, a role
Assertions == [ userId : {Undef, Str(<<"2">>)}, role : {Undef, Str(<<"p">>)} ]

\* payload d with the identity a written into it, at the top level and in
\* the command object if there is one
Asserting(d, a) ==
  [d EXCEPT !.userId = a.userId, !.role = a.role,
            !.command = IF @.t = "obj" THEN [@ EXCEPT !.userId = a.userId, !.role = a.role]
                        ELSE @]

DrawPayloads ==
  { FlatDraw(p) : p \in Paths }
    \cup { NestedDraw(Obj(TypeDraw, p)) : p \in Paths }
    \cup { NestedDraw(Obj(Undef, PathValid)) }

ProfessorData == [ professorName : Names, roomKey : RawKeys, createIfNotExists : CreateFlags ]
StudentData == [ studentName : Names, roomKey : RawKeys ]

\* the payloads the sockets of the main specification send
CoreProfessorData ==
  [ professorName : {Str(<<" ", "A", "l", " ">>)}, roomKey : {Str(<<"a", "b", "1">>)},
    createIfNotExists : {Bool(TRUE), Bool(FALSE)} ]
CoreStudentData == [ studentName : {Str(NameAl)}, roomKey : {Str(<<"a", "b", "1">>)} ]
CoreDrawPayloads == { FlatDraw(PathValid), NestedDraw(Obj(TypeDraw, PathValid)) }

(***************************************************************************)
(* State.                                                                  *)
(***************************************************************************)
VARIABLES
  variant,       \* "simple" or "multi": which server of src/server.js runs
  connected,     \* socket ids with an open transport connection
  rooms,         \* the Room Registry: room key -> room
  userSessions,  \* the Session Registry: socket id -> session
  joined,        \* socket.io adapter: socket id -> set of room names it is in
  timers,        \* pending grace-period setTimeout callbacks: room key -> count
  now,           \* Date.now() of the latest accepted draw command
  accepted,      \* ghost: room key -> draw commands accepted since creation/clear
  ev,            \* the inbound event handled last: [op, sock]
  out,           \* events the last handler emitted, in order, with their recipients
  inbox,         \* socket id -> events delivered since its latest room-joined
  drained        \* ghost: room key -> the history the room had when it last
                 \* became empty, while that grace period runs

vars ==
  << variant, connected, rooms, userSessions, joined, timers, now,
     accepted, ev, out, inbox, drained >>

(***************************************************************************)
(* Maps (JavaScript Map / Set) and the socket.io emit targets.             *)
(***************************************************************************)
Put(f, k, v) == [x \in DOMAIN f \cup {k} |-> IF x = k THEN v ELSE f[x]]
Del(f, k) == [x \in DOMAIN f \ {k} |-> f[x]]
Has(f, k) == k \in DOMAIN f

\* the state a handler reads and writes
Cur ==
  [ rooms |-> rooms, userSessions |-> userSessions, joined |-> joined,
    timers |-> timers, now |-> now, accepted |-> accepted ]

\* one emitted event: name, recipients, error code, room, count, commands
E(name, to, code, key, n, cmds) ==
  [ ev |-> name, to |-> to, code |-> code, key |-> key, n |-> n, cmds |-> cmds ]

\* socket.emit(...)
ToSocket(s) == {s}
\* io.to(roomKey).emit(...)
ToRoom(J, key) == { t \in DOMAIN J : key \in J[t] }
\* socket.to(roomKey).emit(...) and socket.broadcast.to(roomKey).emit(...)
ToRoomExcept(J, key, s) == ToRoom(J, key) \ {s}

\* socket.join(roomKey)
SocketJoin(J, s, key) == Put(J, s, J[s] \cup {key})

\* fault: a room-error sent with io.emit(), to every connection
RoomErrorToAll(s, code) == E("room-error", ToSocket(s) \cup Sockets, code, <<>>, 0, <<>>)

RoomError(s, code) == E("room-error", ToSocket(s), code, <<>>, 0, <<>>)
PermissionDenied(s, code) == E("permission-denied", ToSocket(s), code, <<>>, 0, <<>>)
\* fault: a refusal that leaves a session behind for the refused connection
RejectAndRegister(st, pre, e) ==
  [st EXCEPT !.userSessions =
     Put(@, CHOOSE t \in e.to : TRUE,
         [ role |-> "student", name |-> << >>, roomKey |-> << >>,
           userId |-> CHOOSE t \in e.to : TRUE ])]
    @@ [out |-> Append(pre, e)]

Reject(st, pre, e) == st @@ [out |-> Append(pre, e)]
Silent(st) == st @@ [out |-> <<>>]

\* fault: a join that replays only the latest command
ReplayLatestOnly(s, key, history) ==
  IF Len(history) > 0
    THEN << E("room-history", {s}, "", key, 1, SubSeq(history, Len(history), Len(history))) >>
    ELSE << >>

\* if (room.history.length > 0) socket.emit('room-history', { commands })
ReplayHistory(s, key, history) ==
  IF Len(history) > 0
    THEN << E("room-history", ToSocket(s), "", key, Len(history), history) >>
    ELSE << >>

\* history.slice(-n)
SliceLast(h, n) == IF Len(h) <= n THEN h ELSE SubSeq(h, Len(h) - n + 1, Len(h))

(***************************************************************************)
(* Simple variant (src/server.js 198-791).                                 *)
(***************************************************************************)
AttemptReceived(s) == << E("join-attempt-received", ToSocket(s), "", <<>>, 0, <<>>) >>

SimpleNameOk(name) == ~(Len(name) < 1 \/ Len(name) > NameMax)
SimpleKeyOk(key) == ~(Len(key) < KeyMin \/ Len(key) > KeyMax)

\* fault: a professor slot that is never considered taken
ProfessorNeverTaken(room, s) == FALSE

\* room.professor && room.professor !== socket.id
SimpleProfessorTaken(room, s) == room.professor # Null /\ room.professor # s

\* fault: a new room that does not count its creator
NewRoomUncounted(s, professorName) ==
  [ professor |-> s, students |-> {}, history |-> <<>>, userCount |-> 0,
    createdBy |-> professorName ]

SimpleNewRoom(s, professorName) ==
  [ professor |-> s, students |-> {}, history |-> <<>>, userCount |-> 1,
    createdBy |-> professorName ]

SimpleSession(role, name, key, s) ==
  [ role |-> role, name |-> name, roomKey |-> key, userId |-> s ]

\* the part of join-room-as-professor after the room is created or taken over
SimpleProfessorAdmit(st, s, professorName, key, rms, acc) ==
  LET J == SocketJoin(st.joined, s, key)
      room == rms[key]
  IN [ rooms |-> rms,
       userSessions |-> Put(st.userSessions, s, SimpleSession("professor", Trim(professorName), key, s)),
       joined |-> J,
       timers |-> st.timers,
       now |-> st.now,
       accepted |-> acc,
       out |-> AttemptReceived(s)
               \o << E("room-joined", ToSocket(s), "professor", key, room.userCount, <<>>) >>
               \o ReplayHistory(s, key, room.history)
               \o << E("professor-joined", ToRoomExcept(J, key, s), "", key, 0, <<>>),
                     E("user-list-update", ToRoom(J, key), "", key, room.userCount, <<>>) >> ]

\* socket.on('join-room-as-professor')
SimpleJoinRoomAsProfessor(st, s, data) ==
  IF ~Truthy(data.professorName) \/ ~Truthy(data.roomKey)
    THEN Reject(st, AttemptReceived(s), RoomError(s, "MISSING_DATA"))
  ELSE
    LET professorName == Trim(data.professorName.v)
        roomKey == ToUpperCase(Trim(data.roomKey.v))
    IN IF ~SimpleNameOk(professorName)
         THEN Reject(st, AttemptReceived(s), RoomError(s, "INVALID_NAME"))
       ELSE IF ~SimpleKeyOk(roomKey)
         THEN Reject(st, AttemptReceived(s), RoomError(s, "INVALID_ROOM_KEY"))
       ELSE IF ~Has(st.rooms, roomKey)
         THEN IF Truthy(data.createIfNotExists)
                THEN SimpleProfessorAdmit(st, s, professorName, roomKey,
                       Put(st.rooms, roomKey, SimpleNewRoom(s, professorName)),
                       Put(st.accepted, roomKey, <<>>))
                ELSE Reject(st, AttemptReceived(s), RoomError(s, "ROOM_NOT_FOUND"))
       ELSE IF SimpleProfessorTaken(st.rooms[roomKey], s)
         THEN Reject(st, AttemptReceived(s), RoomError(s, "PROFESSOR_EXISTS"))
       ELSE SimpleProfessorAdmit(st, s, professorName, roomKey,
              [st.rooms EXCEPT ![roomKey].professor = s,
                               ![roomKey].userCount = 1 + Cardinality(st.rooms[roomKey].students)],
              st.accepted)

\* if (room.userCount >= 100)
SimpleRoomFull(room) == room.userCount >= SimpleRoomCapacity

\* fault: an add that takes out an id that is in the set already
StudentsAddToggles(students, s) ==
  IF s \in students THEN students \ {s} ELSE students \cup {s}

\* room.students.add(socket.id)
StudentsAdd(students, s) == students \cup {s}

\* socket.on('join-room-as-student')
SimpleJoinRoomAsStudent(st, s, data) ==
  IF ~Truthy(data.studentName) \/ ~Truthy(data.roomKey)
    THEN Reject(st, AttemptReceived(s), RoomError(s, "MISSING_DATA"))
  ELSE
    LET studentName == Trim(data.studentName.v)
        roomKey == ToUpperCase(Trim(data.roomKey.v))
    IN IF ~SimpleNameOk(studentName)
         THEN Reject(st, AttemptReceived(s), RoomError(s, "INVALID_NAME"))
       ELSE IF ~Has(st.rooms, roomKey)
         THEN Reject(st, AttemptReceived(s), RoomError(s, "ROOM_NOT_FOUND"))
       ELSE IF SimpleRoomFull(st.rooms[roomKey])
         THEN Reject(st, AttemptReceived(s), RoomError(s, "ROOM_FULL"))
       ELSE
         LET J == SocketJoin(st.joined, s, roomKey)
             students == StudentsAdd(st.rooms[roomKey].students, s)
             rms == [st.rooms EXCEPT ![roomKey].students = students,
                                     ![roomKey].userCount = 1 + Cardinality(students)]
             room == rms[roomKey]
         IN [ rooms |-> rms,
              userSessions |-> Put(st.userSessions, s, SimpleSession("student", Trim(studentName), roomKey, s)),
              joined |-> J,
              timers |-> st.timers,
              now |-> st.now,
              accepted |-> st.accepted,
              out |-> AttemptReceived(s)
                      \o << E("room-joined", ToSocket(s), "student", roomKey, room.userCount, <<>>) >>
                      \o ReplayHistory(s, roomKey, room.history)
                      \o << E("user-list-update", ToRoom(J, roomKey), "", roomKey, room.userCount, <<>>) >> ]

\* fault: a role check that lets every session draw
MayDrawAnyRole(session) == TRUE

\* if (userSession.role !== 'professor')
MayDraw(session) == session.role = "professor"

\* !data.path || !Array.isArray(data.path) || data.path.length === 0
SimplePathInvalid(data) ==
  ~Truthy(data.path) \/ ~IsArray(data.path) \/ Len(data.path.v) = 0

\* fault: a trim that keeps the oldest commands, history.slice(0, 500)
PushKeepOldest(history, cmd) ==
  LET h == Append(history, cmd)
  IN IF Len(h) > SimpleHistoryLimit THEN SubSeq(h, 1, SimpleHistoryKeep) ELSE h

\* room.history.push(drawCommand); if (length > 1000) history = history.slice(-500)
SimplePushHistory(history, cmd) ==
  LET h == Append(history, cmd)
  IN IF Len(h) > SimpleHistoryLimit THEN SliceLast(h, SimpleHistoryKeep) ELSE h

\* socket.on('draw-command')
SimpleDrawCommand(st, s, data) ==
  IF ~Has(st.userSessions, s)
    THEN Reject(st, <<>>, PermissionDenied(s, "SESSION_NOT_FOUND"))
  ELSE IF ~MayDraw(st.userSessions[s])
    THEN Reject(st, <<>>, PermissionDenied(s, "INSUFFICIENT_PERMISSIONS"))
  ELSE
    LET userSession == st.userSessions[s]
        roomKey == userSession.roomKey
    IN IF ~Has(st.rooms, roomKey)
         THEN Reject(st, <<>>, PermissionDenied(s, "ROOM_NOT_FOUND"))
       ELSE IF SimplePathInvalid(data)
         THEN Silent(st)
       ELSE
         LET drawCommand == [ type |-> TypeDraw, path |-> data.path,
                              timestamp |-> st.now + 1, userId |-> s,
                              professorName |-> userSession.name ]
         IN [ rooms |-> [st.rooms EXCEPT ![roomKey].history = SimplePushHistory(@, drawCommand)],
              userSessions |-> st.userSessions,
              joined |-> st.joined,
              timers |-> st.timers,
              now |-> st.now + 1,
              accepted |-> [st.accepted EXCEPT ![roomKey] = Append(@, drawCommand)],
              out |-> << E("draw-command", ToRoomExcept(st.joined, roomKey, s), "", roomKey, 1, <<drawCommand>>) >> ]

\* socket.on('clear-canvas')
SimpleClearCanvas(st, s) ==
  IF ~Has(st.userSessions, s)
    THEN Reject(st, <<>>, PermissionDenied(s, "SESSION_NOT_FOUND"))
  ELSE IF ~MayDraw(st.userSessions[s])
    THEN Reject(st, <<>>, PermissionDenied(s, "INSUFFICIENT_PERMISSIONS"))
  ELSE
    LET roomKey == st.userSessions[s].roomKey
    IN IF ~Has(st.rooms, roomKey)
         THEN Silent(st)
       ELSE [ rooms |-> [st.rooms EXCEPT ![roomKey].history = <<>>],
              userSessions |-> st.userSessions,
              joined |-> st.joined,
              timers |-> st.timers,
              now |-> st.now,
              accepted |-> [st.accepted EXCEPT ![roomKey] = <<>>],
              out |-> << E("canvas-cleared", ToRoom(st.joined, roomKey), "", roomKey, 0, <<>>) >> ]

\* user-list-update to the users remaining after a disconnect
SimpleUserListAfter(st, rms, key) ==
  IF Has(rms, key)
    THEN << E("user-list-update", ToRoom(st.joined, key), "", key, rms[key].userCount, <<>>) >>
    ELSE << >>

\* socket.on('disconnect'); the socket has left its socket.io rooms already
SimpleDisconnect(st, s) ==
  IF ~Has(st.userSessions, s)
    THEN Silent(st)
  ELSE
    LET userSession == st.userSessions[s]
        roomKey == userSession.roomKey
        sessions == Del(st.userSessions, s)
    IN IF ~Has(st.rooms, roomKey)
         THEN [st EXCEPT !.userSessions = sessions] @@ [out |-> <<>>]
       ELSE
         LET room == st.rooms[roomKey]
             left == IF userSession.role = "professor"
                       THEN [room EXCEPT !.professor = Null,
                                         !.userCount = Cardinality(room.students)]
                     ELSE IF userSession.role = "student"
                       THEN [room EXCEPT !.students = @ \ {s},
                                         !.userCount = (IF room.professor # Null THEN 1 ELSE 0)
                                                       + Cardinality(room.students \ {s})]
                     ELSE room
             gone == IF userSession.role = "professor"
                       THEN Cardinality(left.students) = 0
                     ELSE IF userSession.role = "student"
                       THEN left.professor = Null /\ Cardinality(left.students) = 0
                     ELSE FALSE
             rms == IF gone THEN Del(st.rooms, roomKey) ELSE Put(st.rooms, roomKey, left)
         IN [ rooms |-> rms,
              userSessions |-> sessions,
              joined |-> st.joined,
              timers |-> st.timers,
              now |-> st.now,
              accepted |-> IF gone THEN Del(st.accepted, roomKey) ELSE st.accepted,
              out |-> (IF userSession.role = "professor"
                         THEN << E("professor-disconnected", ToRoomExcept(st.joined, roomKey, s), "", roomKey, 0, <<>>) >>
                         ELSE << >>)
                      \o SimpleUserListAfter(st, rms, roomKey) ]

\* app.post('/debug/bypass-permissions/:socketId'): the session the id names,
\* if there is one, gets the professor role
SimpleBypassPermissions(st, s) ==
  IF Has(st.userSessions, s)
    THEN [st EXCEPT !.userSessions[s].role = "professor"] @@ [out |-> << >>]
    ELSE Silent(st)

(***************************************************************************)
(* Multi-professor variant (src/server.js 2372-2825).                      *)
(***************************************************************************)
\* fault: a key validation that forgets toUpperCase()
validateRoomKeyCaseSensitive(key) ==
  IF ~Truthy(key) \/ key.t # "str" THEN FALSE
  ELSE LET cleanKey == Trim(key.v)
       IN /\ Len(cleanKey) >= KeyMin
          /\ Len(cleanKey) <= KeyMax
          /\ \A i \in 1..Len(cleanKey) : IsAlnumUpper(cleanKey[i])

\* validateRoomKey(key)
validateRoomKey(key) ==
  IF ~Truthy(key) \/ key.t # "str" THEN FALSE
  ELSE LET cleanKey == ToUpperCase(Trim(key.v))
       IN /\ Len(cleanKey) >= KeyMin
          /\ Len(cleanKey) <= KeyMax
          /\ \A i \in 1..Len(cleanKey) : IsAlnumUpper(cleanKey[i])

\* getRoomStats(roomKey).total
MultiTotal(room) == Cardinality(DOMAIN room.professors) + Cardinality(DOMAIN room.students)

\* createRoom(roomKey, creatorInfo)
createRoom(rms, roomKey, creatorInfo) ==
  Put(rms, ToUpperCase(roomKey),
      [ professors |-> << >>, students |-> << >>, commands |-> << >>,
        createdBy |-> creatorInfo ])

\* !name || name.trim().length === 0
MultiNameMissing(name) == ~Truthy(name) \/ Len(Trim(name.v)) = 0

\* fault: a professor limit that is off by one, professors.size > 3
ProfessorLimitOffByOne(room) == Cardinality(DOMAIN room.professors) > MultiProfessorLimit

\* if (room.professors.size >= 3)
MultiProfessorLimitReached(room) == Cardinality(DOMAIN room.professors) >= MultiProfessorLimit

\* fault: a student limit that is off by one, students.size > 100
StudentLimitOffByOne(room) == Cardinality(DOMAIN room.students) > MultiStudentLimit

\* if (room.students.size >= 100)
MultiStudentLimitReached(room) == Cardinality(DOMAIN room.students) >= MultiStudentLimit

MultiUserList(J, to, key, room) ==
  E("user-list-update", to, "", key, MultiTotal(room), <<>>)

\* const { ..., createIfNotExists = true } = data
MultiCreateFlag(data) ==
  IF data.createIfNotExists.t = "undef" THEN TRUE ELSE Truthy(data.createIfNotExists)

\* socket.on('join-room-as-professor'); gen is what generateRoomKey() returns
MultiJoinRoomAsProfessor(st, s, data, gen) ==
  IF MultiNameMissing(data.professorName)
    THEN Reject(st, <<>>, RoomError(s, "INVALID_NAME"))
  ELSE
    LET createIfNotExists == MultiCreateFlag(data)
        roomKey == IF ~Truthy(data.roomKey) /\ createIfNotExists THEN gen ELSE data.roomKey
    IN IF ~validateRoomKey(roomKey)
         THEN Reject(st, <<>>, RoomError(s, "INVALID_ROOM_KEY"))
       ELSE
         LET normalizedRoomKey == ToUpperCase(roomKey.v)
             exists == Has(st.rooms, normalizedRoomKey)
         IN IF ~exists /\ ~createIfNotExists
              THEN Reject(st, <<>>, RoomError(s, "ROOM_NOT_FOUND"))
            ELSE
              LET rms0 == IF exists THEN st.rooms
                          ELSE createRoom(st.rooms, normalizedRoomKey, data.professorName.v)
                  acc0 == IF exists THEN st.accepted ELSE Put(st.accepted, normalizedRoomKey, <<>>)
                  st0 == [st EXCEPT !.rooms = rms0, !.accepted = acc0]
              IN IF MultiProfessorLimitReached(rms0[normalizedRoomKey])
                   THEN Reject(st0, <<>>, RoomError(s, "PROFESSOR_LIMIT_REACHED"))
                 ELSE
                   LET J == SocketJoin(st.joined, s, normalizedRoomKey)
                       name == Trim(data.professorName.v)
                       rms == [rms0 EXCEPT ![normalizedRoomKey].professors = Put(@, s, name)]
                       room == rms[normalizedRoomKey]
                   IN [ rooms |-> rms,
                        userSessions |-> Put(st.userSessions, s,
                                             SimpleSession("professor", name, normalizedRoomKey, s)),
                        joined |-> J,
                        timers |-> st.timers,
                        now |-> st.now,
                        accepted |-> acc0,
                        out |-> << E("room-joined", ToSocket(s), "professor", normalizedRoomKey,
                                     MultiTotal(room), <<>>) >>
                                \o ReplayHistory(s, normalizedRoomKey, room.commands)
                                \o << MultiUserList(J, ToRoom(J, normalizedRoomKey), normalizedRoomKey, room) >> ]

\* fault: students admitted to a room without a professor
MultiNoProfessorIgnored(room) == FALSE

\* if (room.professors.size === 0)
MultiNoProfessor(room) == Cardinality(DOMAIN room.professors) = 0

\* socket.on('join-room-as-student')
MultiJoinRoomAsStudent(st, s, data) ==
  IF MultiNameMissing(data.studentName)
    THEN Reject(st, <<>>, RoomError(s, "INVALID_NAME"))
  ELSE IF ~validateRoomKey(data.roomKey)
    THEN Reject(st, <<>>, RoomError(s, "INVALID_ROOM_KEY"))
  ELSE
    LET normalizedRoomKey == ToUpperCase(data.roomKey.v)
    IN IF ~Has(st.rooms, normalizedRoomKey)
         THEN Reject(st, <<>>, RoomError(s, "ROOM_NOT_FOUND"))
       ELSE IF MultiNoProfessor(st.rooms[normalizedRoomKey])
         THEN Reject(st, <<>>, RoomError(s, "NO_PROFESSOR"))
       ELSE IF MultiStudentLimitReached(st.rooms[normalizedRoomKey])
         THEN Reject(st, <<>>, RoomError(s, "STUDENT_LIMIT_REACHED"))
       ELSE
         LET J == SocketJoin(st.joined, s, normalizedRoomKey)
             name == Trim(data.studentName.v)
             rms == [st.rooms EXCEPT ![normalizedRoomKey].students = Put(@, s, name)]
             room == rms[normalizedRoomKey]
         IN [ rooms |-> rms,
              userSessions |-> Put(st.userSessions, s,
                                   SimpleSession("student", name, normalizedRoomKey, s)),
              joined |-> J,
              timers |-> st.timers,
              now |-> st.now,
              accepted |-> st.accepted,
              out |-> << E("room-joined", ToSocket(s), "student", normalizedRoomKey,
                           MultiTotal(room), <<>>) >>
                      \o ReplayHistory(s, normalizedRoomKey, room.commands)
                      \o << MultiUserList(J, ToRoom(J, normalizedRoomKey), normalizedRoomKey, room) >> ]

\* !command || !command.type || !command.path
MultiCommandInvalid(command) ==
  ~Truthy(command) \/ ~Truthy(command.type) \/ ~Truthy(command.path)

\* fault: a history that is never trimmed
PushUnbounded(commands, cmd) == Append(commands, cmd)

\* room.commands.push(cmd); if (length > 1000) commands = commands.slice(-1000)
MultiPushHistory(commands, cmd) ==
  LET h == Append(commands, cmd)
  IN IF Len(h) > MultiHistoryLimit THEN SliceLast(h, MultiHistoryKeep) ELSE h

\* socket.on('draw-command')
MultiDrawCommand(st, s, data) ==
  IF ~Has(st.userSessions, s)
    THEN Reject(st, <<>>, PermissionDenied(s, ""))
  ELSE IF ~MayDraw(st.userSessions[s])
    THEN Reject(st, <<>>, PermissionDenied(s, ""))
  ELSE IF MultiCommandInvalid(data.command)
    THEN Silent(st)
  ELSE
    LET userSession == st.userSessions[s]
        roomKey == userSession.roomKey
    IN IF ~Has(st.rooms, roomKey)
         THEN Reject(st, <<>>, RoomError(s, "ROOM_GONE"))
       ELSE
         LET \* { ...command, professorId, professorName, timestamp, roomKey }
             enrichedCommand == [ type |-> data.command.type, path |-> data.command.path,
                                  userId |-> data.command.userId, role |-> data.command.role,
                                  professorId |-> s, professorName |-> userSession.name,
                                  timestamp |-> st.now + 1 ]
         IN [ rooms |-> [st.rooms EXCEPT ![roomKey].commands = MultiPushHistory(@, enrichedCommand)],
              userSessions |-> st.userSessions,
              joined |-> st.joined,
              timers |-> st.timers,
              now |-> st.now + 1,
              accepted |-> [st.accepted EXCEPT ![roomKey] = Append(@, enrichedCommand)],
              out |-> << E("draw-command", ToRoomExcept(st.joined, roomKey, s), "", roomKey, 1,
                           <<enrichedCommand>>) >> ]

\* socket.on('clear-canvas')
MultiClearCanvas(st, s) ==
  IF ~Has(st.userSessions, s) \/ ~MayDraw(st.userSessions[s])
    THEN Reject(st, <<>>, PermissionDenied(s, ""))
  ELSE
    LET roomKey == st.userSessions[s].roomKey
    IN IF ~Has(st.rooms, roomKey)
         THEN Reject(st, <<>>, RoomError(s, "ROOM_GONE"))
       ELSE [ rooms |-> [st.rooms EXCEPT ![roomKey].commands = <<>>],
              userSessions |-> st.userSessions,
              joined |-> st.joined,
              timers |-> st.timers,
              now |-> st.now,
              accepted |-> [st.accepted EXCEPT ![roomKey] = <<>>],
              out |-> << E("canvas-cleared", ToRoom(st.joined, roomKey), "", roomKey, 0, <<>>) >> ]

\* fault: a disconnect that empties the room and schedules nothing
ScheduleDeletionSkipped(tm, key) == tm

\* setTimeout(() => {...}, 30000): one more pending callback for the room key
ScheduleDeletion(tm, key) == Put(tm, key, IF Has(tm, key) THEN tm[key] + 1 ELSE 1)

\* socket.on('disconnect'); the socket has left its socket.io rooms already
MultiDisconnect(st, s) ==
  IF ~Has(st.userSessions, s)
    THEN Silent(st)
  ELSE
    LET userSession == st.userSessions[s]
        roomKey == userSession.roomKey
        sessions == Del(st.userSessions, s)
    IN IF ~Has(st.rooms, roomKey)
         THEN [st EXCEPT !.userSessions = sessions] @@ [out |-> <<>>]
       ELSE
         LET room == IF userSession.role = "professor"
                       THEN [st.rooms[roomKey] EXCEPT !.professors = Del(@, s)]
                       ELSE [st.rooms[roomKey] EXCEPT !.students = Del(@, s)]
             totalUsers == MultiTotal(room)
         IN [ rooms |-> Put(st.rooms, roomKey, room),
              userSessions |-> sessions,
              joined |-> st.joined,
              timers |-> IF totalUsers = 0 THEN ScheduleDeletion(st.timers, roomKey) ELSE st.timers,
              now |-> st.now,
              accepted |-> st.accepted,
              out |-> IF totalUsers = 0 THEN << >>
                      ELSE << MultiUserList(st.joined, ToRoomExcept(st.joined, roomKey, s), roomKey, room) >> ]

\* fault: a callback that deletes the room without looking at its occupancy
GraceTimerDeletesUnchecked(st, roomKey) ==
  [ rooms |-> IF Has(st.rooms, roomKey) THEN Del(st.rooms, roomKey) ELSE st.rooms,
    userSessions |-> st.userSessions,
    joined |-> st.joined,
    timers |-> IF st.timers[roomKey] = 1 THEN Del(st.timers, roomKey)
               ELSE [st.timers EXCEPT ![roomKey] = @ - 1],
    now |-> st.now,
    accepted |-> IF Has(st.accepted, roomKey) THEN Del(st.accepted, roomKey) ELSE st.accepted,
    out |-> << >> ]

\* the grace-period callback: delete the room if it exists and is still empty
GraceTimerFires(st, roomKey) ==
  LET tm == IF st.timers[roomKey] = 1 THEN Del(st.timers, roomKey)
            ELSE [st.timers EXCEPT ![roomKey] = @ - 1]
      empty == /\ Has(st.rooms, roomKey)
               /\ Cardinality(DOMAIN st.rooms[roomKey].professors) = 0
               /\ Cardinality(DOMAIN st.rooms[roomKey].students) = 0
  IN [ rooms |-> IF empty THEN Del(st.rooms, roomKey) ELSE st.rooms,
       userSessions |-> st.userSessions,
       joined |-> st.joined,
       timers |-> tm,
       now |-> st.now,
       accepted |-> IF empty THEN Del(st.accepted, roomKey) ELSE st.accepted,
       out |-> << >> ]

\* fault: a cleanup that does not look at the occupancy
EmptyRoomsUnchecked(rms) == DOMAIN rms

\* totalUsers === 0
EmptyRooms(rms) == { k \in DOMAIN rms : MultiTotal(rms[k]) = 0 }

\* the hourly cleanup: of the rooms whose lastActivity is more than 24 hours
\* old (inactive), those that are empty are deleted
JanitorSweeps(st, inactive) ==
  LET gone == inactive \cap EmptyRooms(st.rooms)
  IN [ rooms |-> [k \in DOMAIN st.rooms \ gone |-> st.rooms[k]],
       userSessions |-> st.userSessions,
       joined |-> st.joined,
       timers |-> st.timers,
       now |-> st.now,
       accepted |-> [k \in DOMAIN st.accepted \ gone |-> st.accepted[k]],
       out |-> << >> ]

(***************************************************************************)
(* Delivery: what each connected socket has been sent since its latest     *)
(* room-joined: replayed history and live draw commands, less those a      *)
(* later canvas-cleared of their room wiped.                               *)
(***************************************************************************)
Logged == {"room-history", "draw-command"}

Entry(e) == [ev |-> e.ev, key |-> e.key, cmds |-> e.cmds]

Deliver(inb, e) ==
  [ t \in DOMAIN inb |->
      IF t \notin e.to THEN inb[t]
      ELSE IF e.ev = "room-joined" THEN << Entry(e) >>
      ELSE IF e.ev = "canvas-cleared"
        THEN SelectSeq(inb[t], LAMBDA x : x.ev = "room-joined" \/ x.key # e.key)
      ELSE IF e.ev \in Logged THEN Append(inb[t], Entry(e))
      ELSE inb[t] ]

RECURSIVE DeliverAll(_, _)
DeliverAll(inb, es) ==
  IF es = << >> THEN inb ELSE DeliverAll(Deliver(inb, Head(es)), Tail(es))

(***************************************************************************)
(* Initial state and the steps of the server.                              *)
(***************************************************************************)
Variants == {"simple", "multi"}

Init ==
  /\ variant \in Variants
  /\ connected = Sockets
  /\ rooms = << >>
  /\ userSessions = << >>
  /\ joined = [s \in Sockets |-> {}]
  /\ timers = << >>
  /\ now = 0
  /\ accepted = << >>
  /\ ev = [op |-> "listen", sock |-> Null]
  /\ out = << >>
  /\ inbox = [s \in Sockets |-> << >>]
  /\ drained = << >>

\* The grace periods that run after a handler's result r.  The callbacks of
\* setTimeout(..., 30000) run in the order they were scheduled, so the period
\* of a room's latest emptying runs for as long as a callback of its key is
\* pending.  A period starts when a disconnect leaves the room empty and ends
\* when that callback runs or a join succeeds on the key.
Drain(op, s, r) ==
  IF variant # "multi" THEN drained
  ELSE IF op = "disconnect"
    THEN IF /\ Has(userSessions, s)
            /\ Has(rooms, userSessions[s].roomKey)
            /\ MultiTotal(r.rooms[userSessions[s].roomKey]) = 0
           THEN Put(drained, userSessions[s].roomKey, rooms[userSessions[s].roomKey].commands)
           ELSE drained
  ELSE IF op = "grace-timer"
    THEN [k \in DOMAIN drained \cap DOMAIN r.timers |-> drained[k]]
  ELSE IF op \in {"join-room-as-professor", "join-room-as-student"}
    THEN [k \in { x \in DOMAIN drained :
                    \A i \in DOMAIN r.out : ~(r.out[i].ev = "room-joined" /\ r.out[i].key = x) }
            |-> drained[k]]
  ELSE drained

\* a handler ran to completion with result r
Step(op, s, r) ==
  /\ drained' = Drain(op, s, r)
  /\ rooms' = r.rooms
  /\ userSessions' = r.userSessions
  /\ joined' = r.joined
  /\ timers' = r.timers
  /\ now' = r.now
  /\ accepted' = r.accepted
  /\ out' = r.out
  /\ ev' = [op |-> op, sock |-> s]
  /\ UNCHANGED variant

(***************************************************************************)
(* Faults.  Every handler body but the simple disconnect's is a try block; *)
(* a TypeError is thrown where the body reads a property of a null payload *)
(* or calls trim() on a name or key that is not a string.                  *)
(***************************************************************************)
\* an exception that left the handler: process.on('uncaughtException')
Uncaught == E("uncaughtException", {}, "TypeError", <<>>, 0, <<>>)

\* simple joins: data.attemptNumber of null; data[name].trim(), data.roomKey.trim()
SimpleJoinThrows(data, name) ==
  \/ data = NullPayload
  \/ /\ Truthy(data[name])
     /\ Truthy(data.roomKey)
     /\ (data[name].t # "str" \/ data.roomKey.t # "str")

\* the catch block of a simple join reads data.attemptNumber again while it
\* builds the room-error, and throws for a null payload
SimpleJoinCaught(st, s, data) ==
  IF data = NullPayload THEN st @@ [out |-> << Uncaught >>]
  ELSE Reject(st, AttemptReceived(s), RoomError(s, "INTERNAL_ERROR"))

\* multi joins: destructuring of null; name.trim()
MultiJoinThrows(data, name) ==
  \/ data = NullPayload
  \/ Truthy(data[name]) /\ data[name].t # "str"

MultiJoinCaught(st, s) == Reject(st, <<>>, RoomError(s, "INTERNAL_ERROR"))

\* draw-command reads its payload after the session, role and (simple) room checks
SimpleDrawThrows(st, s, data) ==
  /\ Has(st.userSessions, s)
  /\ MayDraw(st.userSessions[s])
  /\ Has(st.rooms, st.userSessions[s].roomKey)
  /\ data = NullPayload

SimpleDrawCaught(st, s) == Reject(st, <<>>, PermissionDenied(s, "PROCESSING_ERROR"))

MultiDrawThrows(st, s, data) ==
  /\ Has(st.userSessions, s)
  /\ MayDraw(st.userSessions[s])
  /\ data = NullPayload

\* catch (error) { console.error(...) }
MultiDrawCaught(st) == Silent(st)

HandleJoinRoomAsProfessor(st, s, data, gen) ==
  IF variant = "simple"
    THEN IF SimpleJoinThrows(data, "professorName") THEN SimpleJoinCaught(st, s, data)
         ELSE SimpleJoinRoomAsProfessor(st, s, data)
    ELSE IF MultiJoinThrows(data, "professorName") THEN MultiJoinCaught(st, s)
         ELSE MultiJoinRoomAsProfessor(st, s, data, gen)

HandleJoinRoomAsStudent(st, s, data) ==
  IF variant = "simple"
    THEN IF SimpleJoinThrows(data, "studentName") THEN SimpleJoinCaught(st, s, data)
         ELSE SimpleJoinRoomAsStudent(st, s, data)
    ELSE IF MultiJoinThrows(data, "studentName") THEN MultiJoinCaught(st, s)
         ELSE MultiJoinRoomAsStudent(st, s, data)

\* fault: a draw-command that ends the session of its sender
DrawCommandEndsSession(st, s, data) ==
  LET r == IF variant = "simple" THEN SimpleDrawCommand(st, s, data)
           ELSE MultiDrawCommand(st, s, data)
  IN [r EXCEPT !.userSessions = [t \in DOMAIN r.userSessions \ {s} |-> r.userSessions[t]]]

HandleDrawCommand(st, s, data) ==
  IF variant = "simple"
    THEN IF SimpleDrawThrows(st, s, data) THEN SimpleDrawCaught(st, s)
         ELSE SimpleDrawCommand(st, s, data)
    ELSE IF MultiDrawThrows(st, s, data) THEN MultiDrawCaught(st)
         ELSE MultiDrawCommand(st, s, data)

\* fault: a clear that is broadcast with socket.to(), which skips the sender
ClearCanvasToOthers(st, s) ==
  LET r == IF variant = "simple" THEN SimpleClearCanvas(st, s) ELSE MultiClearCanvas(st, s)
  IN [r EXCEPT !.out = [i \in DOMAIN r.out |->
                          IF r.out[i].ev = "canvas-cleared"
                            THEN [r.out[i] EXCEPT !.to = @ \ {s}]
                            ELSE r.out[i]]]

HandleClearCanvas(st, s) ==
  IF variant = "simple" THEN SimpleClearCanvas(st, s) ELSE MultiClearCanvas(st, s)

\* fault: a disconnect that is announced to everyone, session or not
DisconnectAlwaysAnnounced(st, s) ==
  LET r == IF variant = "simple" THEN SimpleDisconnect(st, s) ELSE MultiDisconnect(st, s)
  IN [r EXCEPT !.out = Append(@, E("user-list-update", DOMAIN st.joined, "", <<>>, 0, <<>>))]

HandleDisconnect(st, s) ==
  IF variant = "simple" THEN SimpleDisconnect(st, s) ELSE MultiDisconnect(st, s)

\* generateRoomKey() is only called by the multi variant, for a missing key
GenFor(data) ==
  IF variant = "multi" /\ data # NullPayload /\ ~Truthy(data.roomKey) /\ MultiCreateFlag(data)
    THEN GenKeys ELSE {Undef}

JoinRoomAsProfessor(s, data, gen) ==
  /\ s \in connected
  /\ Step("join-room-as-professor", s, HandleJoinRoomAsProfessor(Cur, s, data, gen))
  /\ inbox' = DeliverAll(inbox, out')
  /\ UNCHANGED connected

JoinRoomAsStudent(s, data) ==
  /\ s \in connected
  /\ Step("join-room-as-student", s, HandleJoinRoomAsStudent(Cur, s, data))
  /\ inbox' = DeliverAll(inbox, out')
  /\ UNCHANGED connected

DrawCommand(s, data) ==
  /\ s \in connected
  /\ now < MaxDraws
  /\ Step("draw-command", s, HandleDrawCommand(Cur, s, data))
  /\ inbox' = DeliverAll(inbox, out')
  /\ UNCHANGED connected

ClearCanvas(s) ==
  /\ s \in connected
  /\ Step("clear-canvas", s, HandleClearCanvas(Cur, s))
  /\ inbox' = DeliverAll(inbox, out')
  /\ UNCHANGED connected

\* the transport closes: socket.io takes the socket out of its rooms, then
\* runs the 'disconnect' handler
Disconnect(s) ==
  /\ s \in connected
  /\ connected' = connected \ {s}
  /\ Step("disconnect", s, HandleDisconnect([Cur EXCEPT !.joined = Del(joined, s)], s))
  /\ inbox' = DeliverAll(Del(inbox, s), out')

GraceTimer(key) ==
  /\ variant = "multi"
  /\ Has(timers, key)
  /\ Step("grace-timer", Null, GraceTimerFires(Cur, key))
  /\ inbox' = inbox
  /\ UNCHANGED connected

\* an HTTP client posts to the debug endpoint of the simple server
BypassPermissions(s) ==
  /\ variant = "simple"
  /\ Step("bypass-permissions", s, SimpleBypassPermissions(Cur, s))
  /\ inbox' = inbox
  /\ UNCHANGED connected

\* The sets of rooms a run of the cleanup may find inactive; only the multi
\* server has one.  The clock is not modelled: any room may have been
\* inactive for 24 hours, except one with a grace-period callback pending,
\* whose lastActivity the disconnect stamped less than 30 seconds ago.
Sweeps ==
  IF variant = "multi"
    THEN SUBSET { k \in DOMAIN rooms : ~Has(timers, k) } \ {{}}
    ELSE {}

Janitor(inactive) ==
  /\ inactive \in Sweeps
  /\ Step("janitor", Null, JanitorSweeps(Cur, inactive))
  /\ inbox' = inbox
  /\ UNCHANGED connected

Next ==
  \/ \E s \in Sockets, data \in CoreProfessorData :
       \E gen \in GenFor(data) : JoinRoomAsProfessor(s, data, gen)
  \/ \E s \in Sockets, data \in CoreStudentData : JoinRoomAsStudent(s, data)
  \/ \E s \in Sockets, data \in CoreDrawPayloads : DrawCommand(s, data)
  \/ \E s \in Sockets : ClearCanvas(s)
  \/ \E s \in Sockets : Disconnect(s)
  \/ \E s \in Sockets : BypassPermissions(s)
  \/ \E key \in DOMAIN timers : GraceTimer(key)
  \/ \E inactive \in Sweeps : Janitor(inactive)

Spec == Init /\ [][Next]_vars

(***************************************************************************)
(* Joining and leaving only: no drawing, more join payloads.               *)
(***************************************************************************)
JoinProfessorData ==
  [ professorName : {Str(<<" ", "A", "l", " ">>)}, roomKey : {Str(<<"a", "b", "1">>)},
    createIfNotExists : CreateFlags ]
JoinStudentData ==
  [ studentName : {Str(NameAl)}, roomKey : {Str(<<"a", "b", "1">>), Str(KeyXY2)} ]

NextJoin ==
  \/ \E s \in Sockets, data \in JoinProfessorData :
       \E gen \in GenFor(data) : JoinRoomAsProfessor(s, data, gen)
  \/ \E s \in Sockets, data \in JoinStudentData : JoinRoomAsStudent(s, data)
  \/ \E s \in Sockets : Disconnect(s)
  \/ \E s \in Sockets : BypassPermissions(s)
  \/ \E key \in DOMAIN timers : GraceTimer(key)
  \/ \E inactive \in Sweeps : Janitor(inactive)

SpecJoin == Init /\ [][NextJoin]_vars

(***************************************************************************)
(* A room late in a long lecture: professor 1 has drawn fill commands in   *)
(* room AB1 and student 2 has just joined it.  The state is the one the    *)
(* handlers produce from Init by one professor join, fill accepted draw    *)
(* commands and one student join; the last of these steps is taken here by *)
(* the handler itself.                                                     *)
(***************************************************************************)
Professor1 == 1
Student2 == 2

Drawn(n) ==
  [ i \in 1..n |->
      IF variant = "simple"
        THEN [ type |-> TypeDraw, path |-> PathValid, timestamp |-> i - n,
               userId |-> Professor1, professorName |-> NameAl ]
        ELSE [ type |-> TypeDraw, path |-> PathValid, userId |-> Undef, role |-> Undef,
               professorId |-> Professor1, professorName |-> NameAl, timestamp |-> i - n ] ]

LectureRoom(students, history) ==
  IF variant = "simple"
    THEN [ professor |-> Professor1, students |-> students, history |-> history,
           userCount |-> 1 + Cardinality(students), createdBy |-> NameAl ]
    ELSE [ professors |-> [t \in {Professor1} |-> NameAl],
           students |-> [t \in students |-> NameAl],
           commands |-> history, createdBy |-> <<" ", "A", "l", " ">> ]

Lecture(all, students, history) ==
  [ rooms |-> [k \in {KeyAB1} |-> LectureRoom(students, history)],
    userSessions |-> [t \in {Professor1} \cup students |->
                        SimpleSession(IF t = Professor1 THEN "professor" ELSE "student",
                                      NameAl, KeyAB1, t)],
    joined |-> [t \in all |-> IF t \in {Professor1} \cup students THEN {KeyAB1} ELSE {}],
    timers |-> << >>,
    now |-> 0,
    accepted |-> [k \in {KeyAB1} |-> history] ]

LectureInbox(all, students) ==
  [ t \in all |-> IF t \in {Professor1} \cup students
                    THEN << [ev |-> "room-joined", key |-> KeyAB1, cmds |-> <<>>] >>
                    ELSE << >> ]

\* the state after socket s joins the lecture as a student
InitLecture(all, students, history, s) ==
  LET r == HandleJoinRoomAsStudent(Lecture(all, students, history), s,
                                   [studentName |-> Str(NameAl), roomKey |-> Str(<<"a", "b", "1">>)])
  IN /\ connected = all
     /\ rooms = r.rooms
     /\ userSessions = r.userSessions
     /\ joined = r.joined
     /\ timers = r.timers
     /\ now = r.now
     /\ accepted = r.accepted
     /\ ev = [op |-> "join-room-as-student", sock |-> s]
     /\ out = r.out
     /\ inbox = DeliverAll(LectureInbox(all, students), r.out)
     /\ drained = << >>

InitHistory ==
  /\ variant \in Variants
  /\ \E fill \in (DeepFill - 1)..DeepFill :
       InitLecture(Sockets, {}, Drawn(fill), Student2)

NextHistory ==
  \/ \E s \in Sockets, data \in CoreDrawPayloads : DrawCommand(s, data)
  \/ \E s \in Sockets : ClearCanvas(s)
  \/ \E s \in Sockets : BypassPermissions(s)

SpecHistory == InitHistory /\ [][NextHistory]_vars

(***************************************************************************)
(* A crowded room: professor 1 and a crowd of students in room AB1, the    *)
(* last of whom has just joined.  The crowd's sockets stay connected and   *)
(* send nothing more; the sockets of Sockets join and leave.               *)
(***************************************************************************)
Crowd(n) == { NumSockets + i : i \in 1..n }

InitCrowd ==
  /\ variant \in Variants
  /\ \E n \in (NumCrowd - 1)..NumCrowd :
       InitLecture(Sockets \cup Crowd(n), Crowd(n - 1), << >>, NumSockets + n)

NextCrowd ==
  \/ \E s \in Sockets, data \in CoreProfessorData :
       \E gen \in GenFor(data) : JoinRoomAsProfessor(s, data, gen)
  \/ \E s \in Sockets, data \in CoreStudentData : JoinRoomAsStudent(s, data)
  \/ \E s \in Sockets : Disconnect(s)
  \/ \E s \in Sockets : BypassPermissions(s)

SpecCrowd == InitCrowd /\ [][NextCrowd]_vars

(***************************************************************************)
(* Vocabulary of the properties.                                           *)
(***************************************************************************)
History(room) == IF variant = "simple" THEN room.history ELSE room.commands

StudentsOf(room) == IF variant = "simple" THEN room.students ELSE DOMAIN room.students

ProfessorsOf(room) ==
  IF variant = "simple"
    THEN (IF room.professor = Null THEN {} ELSE {room.professor})
    ELSE DOMAIN room.professors

\* the live connections the room counts among its professors and students
Occupants(room) == (ProfessorsOf(room) \cup StudentsOf(room)) \cap connected

\* the sockets that send events
Actors == connected \cap Sockets

IsProfessor(s) == Has(userSessions, s) /\ userSessions[s].role = "professor"
IsStudent(s) == Has(userSessions, s) /\ userSessions[s].role = "student"

Emits(o, name, code, to) ==
  \E i \in DOMAIN o : o[i].ev = name /\ o[i].code = code /\ o[i].to = to

EmitsNo(o, name) == \A i \in DOMAIN o : o[i].ev # name

\* a name of 1..50 characters after trimming; a key of 3..20 alphanumerics
ValidName(x) == x.t = "str" /\ Len(Trim(x.v)) >= 1 /\ Len(Trim(x.v)) <= 50
ValidKey(x) ==
  /\ x.t = "str"
  /\ Len(x.v) >= 3
  /\ Len(x.v) <= 20
  /\ \A i \in 1..Len(x.v) : IsAlnumUpper(ToUpperChar(x.v[i]))
NormKey(x) == ToUpperCase(x.v)

ValidProfessorJoins ==
  { d \in ProfessorData : ValidName(d.professorName) /\ ValidKey(d.roomKey) }
ValidStudentJoins ==
  { d \in StudentData : ValidName(d.studentName) /\ ValidKey(d.roomKey) }

\* the draw payloads of the inbound event table: { path: [[x, y], ...], ... }
\* with a non-empty path
TableDraws == { d \in DrawPayloads : d.command = Undef /\ IsArray(d.path) /\ Len(d.path.v) > 0 }

(***************************************************************************)
(* C1: in both variants a draw-command or clear-canvas from a connection   *)
(* whose session role is student, or that has no session, is answered with *)
(* one permission-denied event to the sender alone, and leaves every room  *)
(* (so every history) as it was.                                           *)
(***************************************************************************)
Denied(r, s) ==
  /\ Len(r.out) = 1
  /\ r.out[1].ev = "permission-denied"
  /\ r.out[1].to = {s}
  /\ r.rooms = rooms

C1_StudentDrawAndClearDenied ==
  \A s \in Actors :
    (~Has(userSessions, s) \/ IsStudent(s)) =>
      /\ \A d \in DrawPayloads : Denied(HandleDrawCommand(Cur, s, d), s)
      /\ Denied(HandleClearCanvas(Cur, s), s)

\* a student's draw-command was denied while the room held a history
W_C1_StudentDrawDenied ==
  /\ ev.op = "draw-command"
  /\ IsStudent(ev.sock)
  /\ Len(out) = 1
  /\ out[1].ev = "permission-denied"
  /\ out[1].to = {ev.sock}
  /\ \E k \in DOMAIN rooms : Len(History(rooms[k])) > 0

(***************************************************************************)
(* C2: a draw-command with a non-empty path, shaped as in the inbound      *)
(* event table, from a professor whose room exists appends exactly one     *)
(* entry (carrying that path) to that room's history and is emitted as a   *)
(* draw-command to every other occupant of the room and not to the sender. *)
(***************************************************************************)
C2_ProfessorDrawAppendsAndRelays ==
  \A s \in Actors :
    (IsProfessor(s) /\ Has(rooms, userSessions[s].roomKey)) =>
      \A d \in TableDraws :
        LET k == userSessions[s].roomKey
            r == HandleDrawCommand(Cur, s, d)
            h == History(rooms[k])
            h2 == History(r.rooms[k])
        IN /\ Len(h2) = Len(h) + 1
           /\ SubSeq(h2, 1, Len(h)) = h
           /\ h2[Len(h2)].path = d.path
           /\ \E i \in DOMAIN r.out :
                /\ r.out[i].ev = "draw-command"
                /\ r.out[i].cmds = << h2[Len(h2)] >>
                /\ Occupants(rooms[k]) \ {s} \subseteq r.out[i].to
                /\ s \notin r.out[i].to

\* the multi variant took a professor's draw-command and did nothing with it
W_C2_ProfessorDrawDropped ==
  /\ variant = "multi"
  /\ ev.op = "draw-command"
  /\ IsProfessor(ev.sock)
  /\ Has(rooms, userSessions[ev.sock].roomKey)
  /\ Cardinality(Occupants(rooms[userSessions[ev.sock].roomKey])) > 1
  /\ out = << >>

(***************************************************************************)
(* C3: a successful join emits the room's whole history to the joiner      *)
(* exactly once (one room-history event carrying the history in append     *)
(* order, none when the history is empty) and no draw-command; and what a  *)
(* member has been sent for its room since it joined is the replay first,  *)
(* then the live draws, which together are the room's history in append    *)
(* order less the member's own later draws.                                *)
(***************************************************************************)
RECURSIVE Flatten(_)
Flatten(log) == IF log = << >> THEN << >> ELSE Head(log).cmds \o Flatten(Tail(log))

Occurs(c, q) == \E j \in DOMAIN q : q[j] = c

ReplaysIn(o, s) == { i \in DOMAIN o : o[i].ev = "room-history" /\ s \in o[i].to }

JoinReplaysHistory(r, s) ==
  (\E i \in DOMAIN r.out : r.out[i].ev = "room-joined") =>
    LET k == r.userSessions[s].roomKey
        h == History(r.rooms[k])
        j == CHOOSE i \in DOMAIN r.out : r.out[i].ev = "room-joined"
    IN /\ EmitsNo(r.out, "draw-command")
       /\ Cardinality(ReplaysIn(r.out, s)) = (IF Len(h) > 0 THEN 1 ELSE 0)
       /\ \A i \in ReplaysIn(r.out, s) :
            r.out[i].to = {s} /\ r.out[i].key = k /\ r.out[i].cmds = h /\ i > j

\* the connection the server recorded as the sender of a stored command
Sender(c) == IF variant = "simple" THEN c.userId ELSE c.professorId

InboxInOrder(t) ==
  LET k == userSessions[t].roomKey
      h == History(rooms[k])
      log == inbox[t]
      replay == IF Len(log) >= 2 /\ log[2].ev = "room-history" /\ log[2].key = k
                  THEN log[2].cmds ELSE << >>
      got == Flatten(SelectSeq(log, LAMBDA x : x.ev \in Logged /\ x.key = k))
  IN /\ Len(log) >= 1
     /\ log[1].ev = "room-joined"
     /\ log[1].key = k
     /\ \A i \in DOMAIN log : (log[i].ev = "room-history" /\ log[i].key = k) => i = 2
     /\ replay = SubSeq(h, 1, Len(replay))
     /\ got = SelectSeq(h, LAMBDA c : Sender(c) # t \/ Occurs(c, replay))

C3_JoinReplaysHistoryOnceInOrder ==
  /\ \A s \in Actors :
       /\ \A d \in CoreProfessorData : JoinReplaysHistory(HandleJoinRoomAsProfessor(Cur, s, d, Undef), s)
       /\ \A d \in CoreStudentData : JoinReplaysHistory(HandleJoinRoomAsStudent(Cur, s, d), s)
  /\ \A t \in Actors :
       (Has(userSessions, t) /\ Has(rooms, userSessions[t].roomKey)) => InboxInOrder(t)

\* a student joined a room with a history, was sent it, and then a live draw
W_C3_ReplayThenLiveDraw ==
  \E t \in Actors :
    /\ IsStudent(t)
    /\ Len(inbox[t]) = 3
    /\ inbox[t][2].ev = "room-history"
    /\ inbox[t][3].ev = "draw-command"
    /\ Has(rooms, userSessions[t].roomKey)
    /\ Len(History(rooms[userSessions[t].roomKey])) = 2

(***************************************************************************)
(* C4: a clear-canvas from a professor whose room exists leaves that room  *)
(* with the empty history and emits canvas-cleared to all occupants of the *)
(* room, the sender among them.                                            *)
(***************************************************************************)
C4_ProfessorClearEmptiesAndNotifiesAll ==
  \A s \in Actors :
    (IsProfessor(s) /\ Has(rooms, userSessions[s].roomKey)) =>
      LET k == userSessions[s].roomKey
          r == HandleClearCanvas(Cur, s)
      IN /\ History(r.rooms[k]) = << >>
         /\ \A k2 \in DOMAIN rooms \ {k} : r.rooms[k2] = rooms[k2]
         /\ \E i \in DOMAIN r.out :
              /\ r.out[i].ev = "canvas-cleared"
              /\ (Occupants(rooms[k]) \cup {s}) \subseteq r.out[i].to

\* a professor cleared a canvas that had been drawn on, with a second occupant
W_C4_ClearedForEveryone ==
  /\ ev.op = "clear-canvas"
  /\ IsProfessor(ev.sock)
  /\ now > 0
  /\ Len(out) = 1
  /\ out[1].ev = "canvas-cleared"
  /\ ev.sock \in out[1].to
  /\ Cardinality(out[1].to) > 1
  /\ History(rooms[userSessions[ev.sock].roomKey]) = << >>

(***************************************************************************)
(* C5 as stated: in both variants, when a room's history holds 1000        *)
(* commands, accepting one more draw-command leaves exactly 500 entries,   *)
(* the 500 most recently accepted in their original order.                 *)
(***************************************************************************)
AcceptsAtCapacity(s, d) ==
  /\ Has(userSessions, s)
  /\ Has(rooms, userSessions[s].roomKey)
  /\ Len(History(rooms[userSessions[s].roomKey])) = 1000
  /\ HandleDrawCommand(Cur, s, d).now # now

LeavesMostRecent(s, d, keep) ==
  LET k == userSessions[s].roomKey
      r == HandleDrawCommand(Cur, s, d)
      h2 == History(r.rooms[k])
  IN /\ Len(h2) = keep
     /\ h2 = SliceLast(r.accepted[k], keep)
     /\ r.accepted[k] = Append(accepted[k], h2[Len(h2)])

C6_HistoryIsBoundedSuffix ==
  \A k \in DOMAIN rooms :
    LET h == History(rooms[k])
    IN /\ Len(h) <= 1000
       /\ Has(accepted, k)
       /\ Len(h) <= Len(accepted[k])
       /\ h = SliceLast(accepted[k], Len(h))

\* a history that has been trimmed: a proper, non-empty suffix
W_C6_TrimmedHistory ==
  \E k \in DOMAIN rooms :
    /\ Len(History(rooms[k])) > 0
    /\ Len(History(rooms[k])) < Len(accepted[k])

(***************************************************************************)
(* C7: for every valid name and valid room key that is absent from the     *)
(* room registry, a professor join with createIfNotExists = true creates   *)
(* the room with the joiner as its professor, registers a professor        *)
(* session for the joiner and answers room-joined with userCount 1.        *)
(***************************************************************************)
C7_ProfessorCreatesAbsentRoom ==
  \A s \in Actors : \A d \in ValidProfessorJoins :
    (d.createIfNotExists = Bool(TRUE) /\ ~Has(rooms, NormKey(d.roomKey))) =>
      LET k == NormKey(d.roomKey)
          r == HandleJoinRoomAsProfessor(Cur, s, d, Undef)
      IN /\ EmitsNo(r.out, "room-error")
         /\ Has(r.rooms, k)
         /\ DOMAIN r.rooms = DOMAIN rooms \cup {k}
         /\ (IF variant = "simple" THEN r.rooms[k].professor = s
             ELSE DOMAIN r.rooms[k].professors = {s})
         /\ Has(r.userSessions, s)
         /\ r.userSessions[s].role = "professor"
         /\ r.userSessions[s].roomKey = k
         /\ \E i \in DOMAIN r.out :
              r.out[i].ev = "room-joined" /\ r.out[i].to = {s} /\ r.out[i].n = 1
         /\ k \in r.joined[s]

\* a professor has just joined a room that holds nobody else
W_C7_RoomCreated ==
  /\ ev.op = "join-room-as-professor"
  /\ \E i \in DOMAIN out :
       /\ out[i].ev = "room-joined"
       /\ out[i].n = 1
       /\ out[i].code = "professor"
       /\ Has(rooms, out[i].key)
       /\ Occupants(rooms[out[i].key]) = {ev.sock}
  /\ now = 0
  /\ \A t \in Sockets \ {ev.sock} : t \in connected /\ joined[t] = {}

(***************************************************************************)
(* C8: in the simple variant a professor join on a room whose professor    *)
(* slot is held by a different connection is answered with room-error      *)
(* PROFESSOR_EXISTS and leaves the room registry (professor, students,     *)
(* userCount) and the session registry unchanged.                          *)
(***************************************************************************)
C8_SecondProfessorRejected ==
  variant = "simple" =>
    \A s \in Actors : \A d \in ValidProfessorJoins :
      (/\ Has(rooms, NormKey(d.roomKey))
       /\ rooms[NormKey(d.roomKey)].professor # Null
       /\ rooms[NormKey(d.roomKey)].professor # s) =>
        LET r == HandleJoinRoomAsProfessor(Cur, s, d, Undef)
        IN /\ Emits(r.out, "room-error", "PROFESSOR_EXISTS", {s})
           /\ EmitsNo(r.out, "room-joined")
           /\ r.rooms = rooms
           /\ r.userSessions = userSessions
           /\ r.joined = joined

\* a second connection was just refused the professor slot
W_C8_ProfessorExists ==
  /\ variant = "simple"
  /\ ev.op = "join-room-as-professor"
  /\ Emits(out, "room-error", "PROFESSOR_EXISTS", {ev.sock})
  /\ \E k \in DOMAIN rooms : rooms[k].professor \notin {Null, ev.sock}

(***************************************************************************)
(* C9: a student join with a valid name and a valid room key whose         *)
(* normalized form is absent from the room registry is answered with       *)
(* room-error ROOM_NOT_FOUND, creates no room and registers no session.    *)
(***************************************************************************)
C9_StudentJoinAbsentRoom ==
  \A s \in Actors : \A d \in ValidStudentJoins :
    ~Has(rooms, NormKey(d.roomKey)) =>
      LET r == HandleJoinRoomAsStudent(Cur, s, d)
      IN /\ Emits(r.out, "room-error", "ROOM_NOT_FOUND", {s})
         /\ EmitsNo(r.out, "room-joined")
         /\ r.rooms = rooms
         /\ r.userSessions = userSessions
         /\ r.joined = joined

\* a student who asked for another key than the one room's was just told that
\* the room does not exist
W_C9_RoomNotFound ==
  /\ ev.op = "join-room-as-student"
  /\ Emits(out, "room-error", "ROOM_NOT_FOUND", {ev.sock})
  /\ DOMAIN rooms = {KeyAB1}
  /\ ~Has(userSessions, ev.sock)

(***************************************************************************)
(* C10 as stated: a student join on a room that has 100 students is        *)
(* answered with room-error ROOM_FULL or STUDENT_LIMIT_REACHED and does    *)
(* not change the room's students; no room holds more than 100 students.   *)
(***************************************************************************)
NoRoomOver100Students ==
  \A k \in DOMAIN rooms : Cardinality(StudentsOf(rooms[k])) <= 100

JoinAt100Refused(Codes(_)) ==
  \A s \in Actors : \A d \in ValidStudentJoins :
    (/\ Has(rooms, NormKey(d.roomKey))
     /\ Cardinality(StudentsOf(rooms[NormKey(d.roomKey)])) = 100) =>
      LET k == NormKey(d.roomKey)
          r == HandleJoinRoomAsStudent(Cur, s, d)
      IN /\ \E c \in Codes(k) : Emits(r.out, "room-error", c, {s})
         /\ EmitsNo(r.out, "room-joined")
         /\ r.rooms = rooms
         /\ r.userSessions = userSessions

CX_C10_FullRoomSaysFull ==
  /\ NoRoomOver100Students
  /\ JoinAt100Refused(LAMBDA k : {"ROOM_FULL", "STUDENT_LIMIT_REACHED"})

(***************************************************************************)
(* C10 amended: a student join on a room that has 100 students is refused  *)
(* and does not change the room's students; the refusal is room-error      *)
(* ROOM_FULL (simple) or STUDENT_LIMIT_REACHED (multi), except that the    *)
(* multi variant answers NO_PROFESSOR when the room has no professor.  No  *)
(* room holds more than 100 students.                                      *)
(***************************************************************************)
RefusalAt100(k) ==
  IF variant = "simple" THEN {"ROOM_FULL"}
  ELSE IF ProfessorsOf(rooms[k]) = {} THEN {"NO_PROFESSOR"}
  ELSE {"STUDENT_LIMIT_REACHED"}

C10_FullRoomRefusesStudents ==
  /\ NoRoomOver100Students
  /\ JoinAt100Refused(RefusalAt100)

\* a student was just refused by a room of 100 students for being full
W_C10_RoomFull ==
  /\ ev.op = "join-room-as-student"
  /\ \E c \in {"ROOM_FULL", "STUDENT_LIMIT_REACHED"} : Emits(out, "room-error", c, {ev.sock})
  /\ \E k \in DOMAIN rooms : Cardinality(StudentsOf(rooms[k])) = 100

(***************************************************************************)
(* New connections.  socket.io gives every connection an id of its own; an *)
(* id of the pool stands for a new connection once it is closed and        *)
(* nothing in the registries names it any more.  New connections stop      *)
(* arriving while MaxTimers grace-period callbacks of a room are pending.  *)
(***************************************************************************)
Unnamed(s) ==
  /\ ~Has(userSessions, s)
  /\ \A k \in DOMAIN rooms : s \notin ProfessorsOf(rooms[k]) \cup StudentsOf(rooms[k])

\* io.on('connection'): the handlers are registered, no state is written
Connect(s) ==
  /\ s \in Sockets \ connected
  /\ Unnamed(s)
  /\ \A k \in DOMAIN timers : timers[k] < MaxTimers
  /\ connected' = connected \cup {s}
  /\ joined' = Put(joined, s, {})
  /\ inbox' = Put(inbox, s, << >>)
  /\ ev' = [op |-> "connection", sock |-> s]
  /\ out' = << >>
  /\ UNCHANGED << variant, rooms, userSessions, timers, now, accepted, drained >>

(***************************************************************************)
(* The crowded room again, with connections that come and go.              *)
(***************************************************************************)
NextCapacity ==
  \/ \E s \in Sockets, data \in CoreProfessorData :
       \E gen \in GenFor(data) : JoinRoomAsProfessor(s, data, gen)
  \/ \E s \in Sockets, data \in CoreStudentData : JoinRoomAsStudent(s, data)
  \/ \E s \in Sockets : Disconnect(s)
  \/ \E s \in Sockets : Connect(s)

SpecCapacity == InitCrowd /\ [][NextCapacity]_vars

(***************************************************************************)
(* C11: after any sequence of professor joins, student joins and           *)
(* disconnects no room has more than 100 occupants, counting the live      *)
(* connections among its professors and students.                          *)
(***************************************************************************)
C11_OccupancyAtMost100 ==
  \A k \in DOMAIN rooms : Cardinality(Occupants(rooms[k])) <= 100

\* the simple server admitted a professor to a room of 100 live students
W_C11_Room101 ==
  /\ variant = "simple"
  /\ ev.op = "join-room-as-professor"
  /\ \E k \in DOMAIN rooms :
       /\ rooms[k].professor = ev.sock
       /\ ev.sock \in connected
       /\ ev.sock \notin rooms[k].students
       /\ Cardinality(rooms[k].students \cap connected) = 100
       /\ Emits(out, "room-joined", "professor", {ev.sock})

\* the multi server holds its 100 students and more than one professor
W_C11_MultiOver100 ==
  /\ variant = "multi"
  /\ \E k \in DOMAIN rooms :
       /\ Cardinality(DOMAIN rooms[k].students \cap connected) = 100
       /\ Cardinality((DOMAIN rooms[k].professors \ DOMAIN rooms[k].students) \cap connected) >= 1

(***************************************************************************)
(* A room of the multi server with several professors: the faculty have    *)
(* joined room AB1 as professors, the last of them just now.  Their        *)
(* sockets stay connected and send nothing more; the sockets of Sockets    *)
(* join and leave.                                                         *)
(***************************************************************************)
Faculty(n) == { NumSockets + i : i \in 1..n }

FacultyRoom(n) ==
  [ rooms |-> [k \in {KeyAB1} |->
                 [ professors |-> [t \in Faculty(n) |-> NameAl], students |-> << >>,
                   commands |-> << >>, createdBy |-> <<" ", "A", "l", " ">> ]],
    userSessions |-> [t \in Faculty(n) |-> SimpleSession("professor", NameAl, KeyAB1, t)],
    joined |-> [t \in Sockets \cup Faculty(n + 1) |-> IF t \in Faculty(n) THEN {KeyAB1} ELSE {}],
    timers |-> << >>,
    now |-> 0,
    accepted |-> [k \in {KeyAB1} |-> << >>] ]

InitFaculty ==
  /\ variant = "multi"
  /\ \E n \in (NumFaculty - 1)..NumFaculty :
       LET s == NumSockets + n
           r == MultiJoinRoomAsProfessor(FacultyRoom(n - 1), s,
                  [ professorName |-> Str(<<" ", "A", "l", " ">>),
                    roomKey |-> Str(<<"a", "b", "1">>), createIfNotExists |-> Undef ], Undef)
       IN /\ connected = Sockets \cup Faculty(n)
          /\ rooms = r.rooms
          /\ userSessions = r.userSessions
          /\ joined = r.joined
          /\ timers = r.timers
          /\ now = r.now
          /\ accepted = r.accepted
          /\ ev = [op |-> "join-room-as-professor", sock |-> s]
          /\ out = r.out
          /\ inbox = DeliverAll([t \in Sockets \cup Faculty(n) |->
                                   IF t \in Faculty(n - 1)
                                     THEN << [ev |-> "room-joined", key |-> KeyAB1, cmds |-> <<>>] >>
                                     ELSE << >>], r.out)
          /\ drained = << >>

NextFaculty ==
  \/ \E s \in Sockets, data \in CoreProfessorData :
       \E gen \in GenFor(data) : JoinRoomAsProfessor(s, data, gen)
  \/ \E s \in Sockets, data \in CoreStudentData : JoinRoomAsStudent(s, data)
  \/ \E s \in Sockets : Disconnect(s)
  \/ \E s \in Sockets : Connect(s)

SpecFaculty == InitFaculty /\ [][NextFaculty]_vars

(***************************************************************************)
(* C12: in the multi variant no room has more than 3 professors; a         *)
(* professor join (valid name and key) on a room that has 3 professors is  *)
(* answered with room-error PROFESSOR_LIMIT_REACHED and changes nothing,   *)
(* and one on a room that has fewer than 3 is admitted: the sender is      *)
(* among the room's professors, has a professor session and is sent        *)
(* room-joined.                                                            *)
(***************************************************************************)
ProfessorJoinAtLimit(r, s) ==
  /\ Emits(r.out, "room-error", "PROFESSOR_LIMIT_REACHED", {s})
  /\ EmitsNo(r.out, "room-joined")
  /\ r.rooms = rooms
  /\ r.userSessions = userSessions
  /\ r.joined = joined
  /\ r.timers = timers

ProfessorJoinAdmitted(r, s, k) ==
  /\ Emits(r.out, "room-joined", "professor", {s})
  /\ EmitsNo(r.out, "room-error")
  /\ DOMAIN r.rooms[k].professors = DOMAIN rooms[k].professors \cup {s}
  /\ Has(r.userSessions, s)
  /\ r.userSessions[s].role = "professor"
  /\ r.userSessions[s].roomKey = k
  /\ k \in r.joined[s]

C12_AtMostThreeProfessors ==
  variant = "multi" =>
    /\ \A k \in DOMAIN rooms : Cardinality(DOMAIN rooms[k].professors) <= 3
    /\ \A s \in Actors : \A d \in ValidProfessorJoins :
         Has(rooms, NormKey(d.roomKey)) =>
           LET k == NormKey(d.roomKey)
               r == HandleJoinRoomAsProfessor(Cur, s, d, Undef)
           IN IF Cardinality(DOMAIN rooms[k].professors) >= 3
                THEN ProfessorJoinAtLimit(r, s)
                ELSE ProfessorJoinAdmitted(r, s, k)

\* a fourth professor was just refused by a room of three
W_C12_FourthProfessorRefused ==
  /\ variant = "multi"
  /\ ev.op = "join-room-as-professor"
  /\ Emits(out, "room-error", "PROFESSOR_LIMIT_REACHED", {ev.sock})
  /\ \E k \in DOMAIN rooms :
       /\ Cardinality(DOMAIN rooms[k].professors \cap connected) = 3
       /\ ev.sock \notin DOMAIN rooms[k].professors

(***************************************************************************)
(* Rooms that empty and fill again: joining, drawing, leaving, new         *)
(* connections and the timers.                                             *)
(***************************************************************************)
NextGrace ==
  \/ \E s \in Sockets, data \in CoreProfessorData :
       \E gen \in GenFor(data) : JoinRoomAsProfessor(s, data, gen)
  \/ \E s \in Sockets, data \in CoreStudentData : JoinRoomAsStudent(s, data)
  \/ \E s \in Sockets, data \in CoreDrawPayloads : DrawCommand(s, data)
  \/ \E s \in Sockets : Disconnect(s)
  \/ \E s \in Sockets : Connect(s)
  \/ \E key \in DOMAIN timers : GraceTimer(key)
  \/ \E inactive \in Sweeps : Janitor(inactive)

SpecGrace == Init /\ [][NextGrace]_vars

(***************************************************************************)
(* C13: when the only occupant of a room disconnects its session is        *)
(* removed; and a join that succeeds on the room's key while the grace     *)
(* period of that emptying runs finds the room with the history it had     *)
(* when it became empty, and replays that history to the joiner.  The      *)
(* simple server has no grace period: it deletes the room at once.         *)
(***************************************************************************)
OnlyOccupant(s) ==
  /\ Has(userSessions, s)
  /\ Has(rooms, userSessions[s].roomKey)
  /\ ProfessorsOf(rooms[userSessions[s].roomKey])
       \cup StudentsOf(rooms[userSessions[s].roomKey]) = {s}

Joined(r, s, k) ==
  \E i \in DOMAIN r.out : r.out[i].ev = "room-joined" /\ r.out[i].to = {s} /\ r.out[i].key = k

FindsHistory(r, s, k, h) ==
  Joined(r, s, k) =>
    /\ Has(r.rooms, k)
    /\ History(r.rooms[k]) = h
    /\ h # << >> =>
         \E i \in DOMAIN r.out :
           r.out[i].ev = "room-history" /\ r.out[i].to = {s} /\ r.out[i].cmds = h

C13_RejoinInGraceKeepsHistory ==
  /\ \A s \in Actors :
       OnlyOccupant(s) =>
         ~Has(HandleDisconnect([Cur EXCEPT !.joined = Del(joined, s)], s).userSessions, s)
  /\ \A k \in DOMAIN drained : \A s \in Actors :
       /\ \A d \in ValidProfessorJoins :
            NormKey(d.roomKey) = k =>
              FindsHistory(HandleJoinRoomAsProfessor(Cur, s, d, Undef), s, k, drained[k])
       /\ \A d \in ValidStudentJoins :
            NormKey(d.roomKey) = k =>
              FindsHistory(HandleJoinRoomAsStudent(Cur, s, d), s, k, drained[k])

\* a room that emptied with drawings is gone while its grace period runs, and
\* a connection is there to join it
W_C13_HistoryGoneInGrace ==
  /\ variant = "multi"
  /\ Actors # {}
  /\ \E k \in DOMAIN drained :
       /\ drained[k] # << >>
       /\ Has(timers, k)
       /\ ~Has(rooms, k)

\* a join in the grace period found the room and its drawings
W_C13_HistoryKeptInGrace ==
  /\ variant = "multi"
  /\ ev.op = "join-room-as-professor"
  /\ \E k \in DOMAIN rooms :
       /\ Joined([out |-> out], ev.sock, k)
       /\ Has(timers, k)
       /\ rooms[k].commands # << >>
       /\ DOMAIN rooms[k].professors = {ev.sock}
       /\ Emits(out, "room-history", "", {ev.sock})

(***************************************************************************)
(* C14: in every reachable state, whichever grace-period callback runs     *)
(* next and whichever rooms the cleanup finds inactive, every room that    *)
(* has a professor or a student is still there afterwards, unchanged.      *)
(***************************************************************************)
KeepsOccupiedRooms(r) ==
  \A k \in DOMAIN rooms :
    MultiTotal(rooms[k]) > 0 => Has(r.rooms, k) /\ r.rooms[k] = rooms[k]

C14_TimersSpareOccupiedRooms ==
  variant = "multi" =>
    /\ \A k \in DOMAIN timers : KeepsOccupiedRooms(GraceTimerFires(Cur, k))
    /\ \A inactive \in SUBSET DOMAIN rooms : KeepsOccupiedRooms(JanitorSweeps(Cur, inactive))

\* a grace-period callback ran after its room was occupied again, and the
\* room is still there
W_C14_TimerSparedRoom ==
  /\ variant = "multi"
  /\ ev.op = "grace-timer"
  /\ DOMAIN rooms = {KeyAB1}
  /\ Occupants(rooms[KeyAB1]) # {}

(***************************************************************************)
(* C15: a deletion scheduled when a room became empty does not remove the  *)
(* room once it has been occupied again, even if it is empty again when    *)
(* the callback runs: a room is deleted only by the callback of its latest *)
(* emptying.  Callbacks run in scheduling order, so while more than one    *)
(* callback of a key is pending the one to run next is an earlier one.     *)
(***************************************************************************)
C15_RejoinCancelsDeletion ==
  variant = "multi" =>
    \A k \in DOMAIN timers :
      (timers[k] > 1 /\ Has(rooms, k)) => Has(GraceTimerFires(Cur, k).rooms, k)

\* an earlier callback deleted the room while the callback of its latest
\* emptying is still pending
W_C15_EarlierTimerDeleted ==
  /\ variant = "multi"
  /\ ev.op = "grace-timer"
  /\ Has(timers, KeyAB1)
  /\ Has(drained, KeyAB1)
  /\ ~Has(rooms, KeyAB1)

(***************************************************************************)
(* C16: after the disconnect handler has run for a connection that has a   *)
(* session, the connection has no session, and the room the session        *)
(* referenced, if it is still there, has the connection neither as a       *)
(* professor nor among its students, whatever joins the connection made    *)
(* before.                                                                 *)
(***************************************************************************)
C16_DisconnectRemovesIdentity ==
  \A s \in Actors :
    Has(userSessions, s) =>
      LET k == userSessions[s].roomKey
          r == HandleDisconnect([Cur EXCEPT !.joined = Del(joined, s)], s)
      IN /\ ~Has(r.userSessions, s)
         /\ Has(r.rooms, k) =>
              s \notin ProfessorsOf(r.rooms[k]) \cup StudentsOf(r.rooms[k])

\* a connection that joined room AB1 under both roles has disconnected and
\* the room still names it
W_C16_IdentityLeftBehind ==
  /\ ev.op = "disconnect"
  /\ ev.sock \notin connected
  /\ ~Has(userSessions, ev.sock)
  /\ Has(rooms, KeyAB1)
  /\ ev.sock \in ProfessorsOf(rooms[KeyAB1]) \cup StudentsOf(rooms[KeyAB1])

(***************************************************************************)
(* C17: the disconnect handler run for a connection that has no session    *)
(* leaves the rooms, the sessions and the pending deletions as they are    *)
(* and emits nothing; and run twice for any connection it leaves what one  *)
(* run leaves, the second run emitting nothing.                            *)
(***************************************************************************)
\* the registries of a handler's result, as the next handler finds them
After(r) ==
  [ rooms |-> r.rooms, userSessions |-> r.userSessions, joined |-> r.joined,
    timers |-> r.timers, now |-> r.now, accepted |-> r.accepted ]

Closed(s) == [Cur EXCEPT !.joined = Del(joined, s)]

C17_DisconnectWithoutSessionIsNoOp ==
  \A s \in Sockets :
    LET once == HandleDisconnect(Closed(s), s)
        twice == HandleDisconnect(After(once), s)
    IN /\ ~Has(userSessions, s) =>
            /\ once.rooms = rooms
            /\ once.userSessions = userSessions
            /\ once.timers = timers
            /\ once.out = << >>
       /\ After(twice) = After(once)
       /\ twice.out = << >>

\* a connection without a session disconnected from a server whose room is
\* occupied: nothing was emitted
W_C17_SessionlessDisconnect ==
  /\ ev.op = "disconnect"
  /\ out = << >>
  /\ \E k \in DOMAIN rooms :
       /\ Occupants(rooms[k]) # {}
       /\ ev.sock \notin ProfessorsOf(rooms[k]) \cup StudentsOf(rooms[k])
       /\ \E t \in Occupants(rooms[k]) : Has(userSessions, t)

(***************************************************************************)
(* C18: once every connection that joined has disconnected, so that no     *)
(* session is left, and every pending grace-period callback has run, the   *)
(* Room Registry holds no room.  Nothing deletes a room later on: the      *)
(* cleanup deletes empty rooms only, and an empty room has a callback      *)
(* pending.                                                                *)
(***************************************************************************)
C18_EmptyRoomsAreDestroyed ==
  (userSessions = << >> /\ timers = << >>) => rooms = << >>

\* every connection is closed and no callback is pending, and a room is
\* still registered
W_C18_RoomOutlivesEveryone ==
  /\ connected = {}
  /\ userSessions = << >>
  /\ timers = << >>
  /\ rooms # << >>

(***************************************************************************)
(* C19: a connection has a session exactly when it is open and has         *)
(* completed a successful join (it was sent room-joined) since it opened;  *)
(* a join that is refused leaves the sessions as they are; and a join that *)
(* succeeds leaves the connection with one session, that of the join just  *)
(* made, and every other session as it was.                                *)
(***************************************************************************)
HasJoined(s) ==
  /\ s \in connected
  /\ Has(inbox, s)
  /\ inbox[s] # << >>
  /\ Head(inbox[s]).ev = "room-joined"

SessionOfJoin(r, s, role) ==
  IF \E i \in DOMAIN r.out : r.out[i].ev = "room-joined" /\ r.out[i].to = {s}
    THEN /\ DOMAIN r.userSessions = DOMAIN userSessions \cup {s}
         /\ \A t \in DOMAIN userSessions \ {s} : r.userSessions[t] = userSessions[t]
         /\ r.userSessions[s].role = role
         /\ r.userSessions[s].userId = s
         /\ Joined(r, s, r.userSessions[s].roomKey)
    ELSE r.userSessions = userSessions

C19_SessionIffJoined ==
  /\ \A s \in DOMAIN userSessions \cup connected : Has(userSessions, s) <=> HasJoined(s)
  /\ \A s \in Actors :
       /\ \A d \in ProfessorData : \A gen \in GenFor(d) :
            SessionOfJoin(HandleJoinRoomAsProfessor(Cur, s, d, gen), s, "professor")
       /\ \A d \in StudentData :
            SessionOfJoin(HandleJoinRoomAsStudent(Cur, s, d), s, "student")

\* a connection was just refused and has no session, while another has
\* joined and has one
W_C19_RefusedWithoutSession ==
  /\ ev.op \in {"join-room-as-professor", "join-room-as-student"}
  /\ ev.sock \in connected
  /\ \E i \in DOMAIN out : out[i].ev = "room-error" /\ out[i].to = {ev.sock}
  /\ ~Has(userSessions, ev.sock)
  /\ \E t \in connected : Has(userSessions, t) /\ HasJoined(t)

(***************************************************************************)
(* Drawing with an asserted identity: professors and students join, and    *)
(* the draw-command payloads come with and without a user id and a role    *)
(* written into them.                                                      *)
(***************************************************************************)
ForgedIdentity == [ userId |-> Str(<<"2">>), role |-> Str(<<"p">>) ]

AssertedDrawPayloads ==
  CoreDrawPayloads \cup { Asserting(d, ForgedIdentity) : d \in CoreDrawPayloads }

NextAsserted ==
  \/ \E s \in Sockets, data \in CoreProfessorData :
       \E gen \in GenFor(data) : JoinRoomAsProfessor(s, data, gen)
  \/ \E s \in Sockets, data \in CoreStudentData : JoinRoomAsStudent(s, data)
  \/ \E s \in Sockets, data \in AssertedDrawPayloads : DrawCommand(s, data)
  \/ \E s \in Sockets : ClearCanvas(s)

SpecAsserted == Init /\ [][NextAsserted]_vars

(***************************************************************************)
(* C20: a draw-command is accepted or denied, and leaves the registries,   *)
(* the same whatever user id and role the payload asserts: for every       *)
(* sender and payload, the handler emits the same events to the same       *)
(* recipients and produces the same rooms and sessions with the asserted   *)
(* identity as without it, and a sender whose session role is not          *)
(* professor is denied even when the payload asserts one.  The             *)
(* clear-canvas handlers never read their payload.                         *)
(***************************************************************************)
Outcome(r) == [ i \in DOMAIN r.out |-> << r.out[i].ev, r.out[i].code, r.out[i].to >> ]

SameAcceptDeny(r1, r2) == Outcome(r1) = Outcome(r2)

SameRegistries(r1, r2) == r1.rooms = r2.rooms /\ r1.userSessions = r2.userSessions

C20_PayloadIdentityIgnored ==
  \A s \in Actors : \A d \in DrawPayloads : \A a \in Assertions :
    LET plain == HandleDrawCommand(Cur, s, d)
        forged == HandleDrawCommand(Cur, s, Asserting(d, a))
    IN /\ SameAcceptDeny(plain, forged)
       /\ SameRegistries(plain, forged)
       /\ ~IsProfessor(s) => Denied(forged, s)

\* accept or deny alone: this part the handlers of both variants satisfy
AcceptDenyIgnoresPayloadIdentity ==
  \A s \in Actors : \A d \in DrawPayloads : \A a \in Assertions :
    LET plain == HandleDrawCommand(Cur, s, d)
        forged == HandleDrawCommand(Cur, s, Asserting(d, a))
    IN /\ SameAcceptDeny(plain, forged)
       /\ ~IsProfessor(s) => Denied(forged, s)
       /\ variant = "simple" => SameRegistries(plain, forged)

\* the multi server stored a command under the user id its payload asserted
W_C20_AssertedIdStored ==
  /\ variant = "multi"
  /\ ev.op = "draw-command"
  /\ \E k \in DOMAIN rooms : \E i \in DOMAIN rooms[k].commands :
       /\ rooms[k].commands[i].userId = ForgedIdentity.userId
       /\ rooms[k].commands[i].role = ForgedIdentity.role
       /\ rooms[k].commands[i].professorId = ev.sock

(***************************************************************************)
(* Names and keys as clients type them.  Connection 1 joins as professor   *)
(* and types its keys in lower case, connection 2 joins as student and     *)
(* types its keys in mixed case, so that the student never sends the       *)
(* string the professor sent, nor the string the registry holds; some keys *)
(* carry a leading blank or a hyphen, some names are blank or one          *)
(* character too long.                                                     *)
(***************************************************************************)
NameBlank == <<" ">>
NameLong == Repeat("A", NameMax + 1)

ProfessorTyped(name, key, create) ==
  [ professorName |-> Str(name), roomKey |-> Str(key), createIfNotExists |-> Bool(create) ]
StudentTyped(name, key) == [ studentName |-> Str(name), roomKey |-> Str(key) ]

TypedProfessorData ==
  { ProfessorTyped(<<" ", "A", "l", " ">>, <<"a", "b", "1">>, TRUE),
    ProfessorTyped(<<" ", "A", "l", " ">>, <<"a", "b", "1">>, FALSE),
    ProfessorTyped(<<" ", "A", "l", " ">>, <<"a", "-", "b">>, TRUE),
    ProfessorTyped(NameLong, <<" ", "a", "b", "1">>, TRUE),
    ProfessorTyped(NameBlank, <<"a", "-", "b">>, TRUE) }
TypedStudentData ==
  { StudentTyped(NameAl, <<"A", "b", "1">>),
    StudentTyped(NameLong, <<"A", "b", "1">>),
    StudentTyped(NameAl, <<" ", "A", "b", "1">>),
    StudentTyped(<<>>, <<"A", "-", "b">>) }

NextKeys ==
  \/ \E data \in TypedProfessorData :
       \E gen \in GenFor(data) : JoinRoomAsProfessor(Professor1, data, gen)
  \/ \E data \in TypedStudentData : JoinRoomAsStudent(Student2, data)
  \/ \E s \in {Professor1, Student2} : Disconnect(s)
  \/ \E key \in DOMAIN timers : GraceTimer(key)

SpecKeys == Init /\ [][NextKeys]_vars

(***************************************************************************)
(* Letter case.  Two strings differ only in letter case when they have the *)
(* same length and each position holds the same character or the two forms *)
(* of one letter.                                                          *)
(***************************************************************************)
Letters == { <<"a", "A">>, <<"b", "B">>, <<"x", "X">>, <<"y", "Y">> }

CaseForms(c) ==
  {c} \cup { p[2] : p \in { q \in Letters : q[1] = c } }
      \cup { p[1] : p \in { q \in Letters : q[2] = c } }

\* every string that differs from s only in letter case
RECURSIVE Casings(_)
Casings(s) ==
  IF s = << >> THEN { << >> }
  ELSE { << c >> \o t : c \in CaseForms(Head(s)), t \in Casings(Tail(s)) }

\* the keys professors type in SpecKeys, as strings
TypedKeys == { d.roomKey.v : d \in TypedProfessorData }

\* the room-errors with which a room that exists turns a student away
StudentRefusals == { "ROOM_FULL", "NO_PROFESSOR", "STUDENT_LIMIT_REACHED" }

(***************************************************************************)
(* C21: room keys are case-insensitive.  A join event has the same effect  *)
(* and the same answer under every letter-casing of its room key, and a    *)
(* student join whose key differs only in letter case from a key of the    *)
(* room registry is decided by that room: the student is admitted to it,   *)
(* or turned away by it, and is never told the room is missing or the key  *)
(* invalid.                                                                *)
(***************************************************************************)
C21_RoomKeysCaseInsensitive ==
  /\ \A s \in Actors : \A key \in TypedKeys : \A other \in Casings(key) :
       /\ \A c \in CreateFlags :
            LET d == [ professorName |-> Str(<<" ", "A", "l", " ">>),
                       roomKey |-> Str(key), createIfNotExists |-> c ]
            IN HandleJoinRoomAsProfessor(Cur, s, d, Undef)
                 = HandleJoinRoomAsProfessor(Cur, s, [d EXCEPT !.roomKey = Str(other)], Undef)
       /\ HandleJoinRoomAsStudent(Cur, s, StudentTyped(NameAl, key))
            = HandleJoinRoomAsStudent(Cur, s, StudentTyped(NameAl, other))
  /\ \A s \in Actors : \A k \in DOMAIN rooms : \A key \in Casings(k) :
       LET r == HandleJoinRoomAsStudent(Cur, s, StudentTyped(NameAl, key))
       IN /\ DOMAIN r.rooms = DOMAIN rooms
          /\ \/ \E c \in StudentRefusals : Emits(r.out, "room-error", c, {s})
             \/ /\ \E i \in DOMAIN r.out :
                     r.out[i].ev = "room-joined" /\ r.out[i].to = {s} /\ r.out[i].key = k
                /\ s \in StudentsOf(r.rooms[k])
                /\ r.userSessions[s].roomKey = k

\* a student who typed a key in mixed case has just been let into the room a
\* professor created by typing it in lower case, and the professor is there
W_C21_JoinedUnderOtherCasing ==
  /\ ev.op = "join-room-as-student"
  /\ \E i \in DOMAIN out :
       /\ out[i].ev = "room-joined"
       /\ out[i].to = {ev.sock}
       /\ out[i].key = KeyAB1
       /\ out[i].n = 2
  /\ Has(rooms, KeyAB1)
  /\ ev.sock \in StudentsOf(rooms[KeyAB1])
  /\ \E p \in connected \ {ev.sock} : p \in ProfessorsOf(rooms[KeyAB1]) /\ IsProfessor(p)

(***************************************************************************)
(* Rooms at their limits: the crowded room of either variant, or the room  *)
(* of the multi variant's faculty, with connections that come and go.      *)
(***************************************************************************)
InitAtLimit == InitCrowd \/ InitFaculty

SpecAtLimit == InitAtLimit /\ [][NextCapacity]_vars

\* the codes with which a join is rejected
JoinRefusals ==
  { "MISSING_DATA", "INVALID_NAME", "INVALID_ROOM_KEY", "ROOM_NOT_FOUND",
    "PROFESSOR_EXISTS", "PROFESSOR_LIMIT_REACHED", "ROOM_FULL",
    "STUDENT_LIMIT_REACHED", "NO_PROFESSOR" }

\* the handler's result r holds a room-error with one of these codes
Refused(r) ==
  \E i \in DOMAIN r.out : r.out[i].ev = "room-error" /\ r.out[i].code \in JoinRefusals

\* r leaves the registries and the socket.io rooms as they are and sends
\* nothing to anyone but s
OnlyAnswers(r, s) ==
  /\ r.rooms = rooms
  /\ r.userSessions = userSessions
  /\ r.joined = joined
  /\ \A i \in DOMAIN r.out : r.out[i].to \subseteq {s}

(***************************************************************************)
(* C22: a join event, professor's or student's, that is rejected with a    *)
(* room-error (missing data, invalid name, invalid room key, room not      *)
(* found, professor exists, professor limit, room full, student limit, no  *)
(* professor) leaves the room registry, the session registry and the       *)
(* socket.io room membership exactly as they were, and every event it      *)
(* emits goes to the sender alone.                                         *)
(***************************************************************************)
C22_RejectedJoinChangesNothing ==
  \A s \in Actors :
    /\ \A d \in ProfessorData : \A gen \in GenFor(d) :
         LET r == HandleJoinRoomAsProfessor(Cur, s, d, gen)
         IN Refused(r) => OnlyAnswers(r, s)
    /\ \A d \in StudentData :
         LET r == HandleJoinRoomAsStudent(Cur, s, d)
         IN Refused(r) => OnlyAnswers(r, s)

\* a connection was just refused by a room in which others sit: it has no
\* session, is in no room, and nobody else was sent anything
W_C22_RefusedBesideOthers ==
  /\ ev.op \in {"join-room-as-professor", "join-room-as-student"}
  /\ \E i \in DOMAIN out : out[i].ev = "room-error" /\ out[i].code \in JoinRefusals
  /\ \A i \in DOMAIN out : out[i].to = {ev.sock}
  /\ ~Has(userSessions, ev.sock)
  /\ joined[ev.sock] = {}
  /\ \E k \in DOMAIN rooms :
       /\ ev.sock \notin Occupants(rooms[k])
       /\ Cardinality(Occupants(rooms[k])) >= 3

(***************************************************************************)
(* C23: in both variants a join, professor's or student's, whose display   *)
(* name is a string that is empty after trimming or longer than 50         *)
(* characters is rejected with room-error INVALID_NAME: nobody is admitted *)
(* and no session is registered; a join is accepted only with a name of 1  *)
(* to 50 characters after trimming.                                        *)
(***************************************************************************)
NameRejected(r, s) ==
  /\ Emits(r.out, "room-error", "INVALID_NAME", {s})
  /\ EmitsNo(r.out, "room-joined")
  /\ r.userSessions = userSessions

C23_NameOneToFifty ==
  \A s \in Actors :
    /\ \A d \in ProfessorData : \A gen \in GenFor(d) :
         (d.professorName.t = "str" /\ ~ValidName(d.professorName)) =>
           NameRejected(HandleJoinRoomAsProfessor(Cur, s, d, gen), s)
    /\ \A d \in StudentData :
         (d.studentName.t = "str" /\ ~ValidName(d.studentName)) =>
           NameRejected(HandleJoinRoomAsStudent(Cur, s, d), s)

\* a connection has just been admitted under a name of more than 50 characters
W_C23_LongNameAdmitted ==
  /\ ev.op \in {"join-room-as-professor", "join-room-as-student"}
  /\ \E i \in DOMAIN out : out[i].ev = "room-joined" /\ out[i].to = {ev.sock}
  /\ Has(userSessions, ev.sock)
  /\ Len(userSessions[ev.sock].name) > NameMax

(***************************************************************************)
(* C24: name validation precedes the room-existence check.  A join whose   *)
(* name is malformed (a string that is empty after trimming or longer than *)
(* 50 characters) and whose key is a well-formed key of a room that does   *)
(* not exist is answered with room-error INVALID_NAME and not with         *)
(* ROOM_NOT_FOUND, and the room registry stays as it is.                   *)
(***************************************************************************)
Malformed(name) == name.t = "str" /\ ~ValidName(name)

NameErrorNoRoom(r, s) ==
  /\ Emits(r.out, "room-error", "INVALID_NAME", {s})
  /\ \A i \in DOMAIN r.out : r.out[i].code # "ROOM_NOT_FOUND"
  /\ r.rooms = rooms

MalformedNameOnAbsentRoom(IsMalformed(_)) ==
  \A s \in Actors :
    /\ \A d \in ProfessorData :
         (/\ IsMalformed(d.professorName)
          /\ ValidKey(d.roomKey)
          /\ ~Has(rooms, NormKey(d.roomKey))) =>
           NameErrorNoRoom(HandleJoinRoomAsProfessor(Cur, s, d, Undef), s)
    /\ \A d \in StudentData :
         (/\ IsMalformed(d.studentName)
          /\ ValidKey(d.roomKey)
          /\ ~Has(rooms, NormKey(d.roomKey))) =>
           NameErrorNoRoom(HandleJoinRoomAsStudent(Cur, s, d), s)

C24_NameCheckedBeforeRoom == MalformedNameOnAbsentRoom(Malformed)

\* the order of the two checks alone, for the names both variants reject as
\* names (blanks only): this the handlers of both variants satisfy
BlankNameCheckedBeforeRoom ==
  MalformedNameOnAbsentRoom(LAMBDA name : Malformed(name) /\ Len(name.v) > 0 /\ Len(name.v) <= NameMax)

\* a join under a name of more than 50 characters has just created its room
W_C24_RoomCreatedUnderLongName ==
  /\ ev.op = "join-room-as-professor"
  /\ \E i \in DOMAIN out :
       /\ out[i].ev = "room-joined"
       /\ out[i].to = {ev.sock}
       /\ out[i].n = 1
       /\ Has(rooms, out[i].key)
       /\ Len(rooms[out[i].key].createdBy) > NameMax
       /\ ProfessorsOf(rooms[out[i].key]) = {ev.sock}

(***************************************************************************)
(* C25: every key of the room registry is 3 to 20 characters long and      *)
(* consists of upper-case letters and digits only, and a join with a valid *)
(* name whose key, a string, is not such a string even when trimmed and    *)
(* upper-cased is rejected with room-error INVALID_ROOM_KEY.               *)
(***************************************************************************)
WellFormedKey(k) ==
  /\ Len(k) >= KeyMin
  /\ Len(k) <= KeyMax
  /\ \A i \in 1..Len(k) : IsAlnumUpper(k[i])

\* a string that no trimming and upper-casing turns into a well-formed key
HopelessKey(x) == x.t = "str" /\ ~WellFormedKey(ToUpperCase(Trim(x.v)))

KeyRejected(r, s) ==
  /\ Emits(r.out, "room-error", "INVALID_ROOM_KEY", {s})
  /\ EmitsNo(r.out, "room-joined")
  /\ r.rooms = rooms

RegistryKeysWellFormed == \A k \in DOMAIN rooms : WellFormedKey(k)

C25_RegistryKeysWellFormed ==
  /\ RegistryKeysWellFormed
  /\ \A s \in Actors :
       /\ \A d \in ProfessorData :
            (ValidName(d.professorName) /\ HopelessKey(d.roomKey)) =>
              KeyRejected(HandleJoinRoomAsProfessor(Cur, s, d, Undef), s)
       /\ \A d \in StudentData :
            (ValidName(d.studentName) /\ HopelessKey(d.roomKey)) =>
              KeyRejected(HandleJoinRoomAsStudent(Cur, s, d), s)

\* a professor has just joined a room whose registry key holds a character
\* that is neither an upper-case letter nor a digit
W_C25_MalformedKeyInRegistry ==
  /\ ev.op = "join-room-as-professor"
  /\ \E i \in DOMAIN out :
       /\ out[i].ev = "room-joined"
       /\ out[i].to = {ev.sock}
       /\ Has(rooms, out[i].key)
       /\ \E j \in 1..Len(out[i].key) : ~IsAlnumUpper(out[i].key[j])
       /\ userSessions[ev.sock].roomKey = out[i].key

(***************************************************************************)
(* Professors who bring no room key: every professor join carries a valid  *)
(* name, no key and createIfNotExists = true; students join under the key  *)
(* the server generated.                                                   *)
(***************************************************************************)
KeylessProfessorData ==
  { d \in ProfessorData :
      /\ ValidName(d.professorName)
      /\ ~Truthy(d.roomKey)
      /\ d.createIfNotExists = Bool(TRUE) }

NextKeyless ==
  \/ \E s \in Sockets, data \in KeylessProfessorData :
       \E gen \in GenFor(data) : JoinRoomAsProfessor(s, data, gen)
  \/ \E s \in Sockets, data \in JoinStudentData : JoinRoomAsStudent(s, data)
  \/ \E s \in Sockets : Disconnect(s)

SpecKeyless == Init /\ [][NextKeyless]_vars

(***************************************************************************)
(* C26: a professor join with a valid name, no room key and                *)
(* createIfNotExists = true succeeds: whatever key the server generates,   *)
(* the registry holds a room under the key that room-joined names, the     *)
(* sender is a professor of that room and has a professor session for it,  *)
(* and no room-error is sent.                                              *)
(***************************************************************************)
C26_KeylessProfessorJoinCreates ==
  \A s \in Actors : \A d \in KeylessProfessorData : \A gen \in GenFor(d) :
    LET r == HandleJoinRoomAsProfessor(Cur, s, d, gen)
    IN /\ EmitsNo(r.out, "room-error")
       /\ \E i \in DOMAIN r.out :
            /\ r.out[i].ev = "room-joined"
            /\ r.out[i].to = {s}
            /\ Has(r.rooms, r.out[i].key)
            /\ s \in ProfessorsOf(r.rooms[r.out[i].key])
            /\ Has(r.userSessions, s)
            /\ r.userSessions[s].role = "professor"
            /\ r.userSessions[s].roomKey = r.out[i].key

\* the simple server has just answered a professor who brought no key with
\* MISSING_DATA: no room was made and the professor has no session
W_C26_KeylessJoinRejected ==
  /\ variant = "simple"
  /\ ev.op = "join-room-as-professor"
  /\ Emits(out, "room-error", "MISSING_DATA", {ev.sock})
  /\ EmitsNo(out, "room-joined")
  /\ rooms = << >>
  /\ ~Has(userSessions, ev.sock)

(***************************************************************************)
(* Drawing with every kind of path: connection 1 joins as professor,       *)
(* connection 2 as student, and both send draw-command payloads of either  *)
(* shape whose path is missing, a string, an empty array or an array of    *)
(* points.                                                                 *)
(***************************************************************************)
NextPaths ==
  \/ \E data \in CoreProfessorData :
       \E gen \in GenFor(data) : JoinRoomAsProfessor(Professor1, data, gen)
  \/ \E data \in CoreStudentData : JoinRoomAsStudent(Student2, data)
  \/ \E s \in Sockets, data \in DrawPayloads : DrawCommand(s, data)
  \/ \E s \in Sockets : ClearCanvas(s)

SpecPaths == Init /\ [][NextPaths]_vars

(***************************************************************************)
(* C27: a draw-command from a connection with a professor session whose    *)
(* path is missing, is not a sequence or is an empty sequence is dropped   *)
(* silently: the room registry, every history included, stays as it is     *)
(* and no event at all is emitted, neither a broadcast nor an error to the *)
(* sender.                                                                 *)
(***************************************************************************)
BadPath(p) == ~IsArray(p) \/ Len(p.v) = 0

\* neither the payload nor the command object in it holds a path of points
NoPath(d) == BadPath(d.path) /\ (d.command.t = "obj" => BadPath(d.command.path))

C27_BadPathDroppedSilently ==
  \A s \in Actors : \A d \in DrawPayloads :
    (IsProfessor(s) /\ NoPath(d)) =>
      LET r == HandleDrawCommand(Cur, s, d)
      IN /\ r.rooms = rooms
         /\ r.out = << >>

\* the multi server has just stored and relayed a command whose path is an
\* empty array or not an array
W_C27_PathlessCommandStored ==
  /\ ev.op = "draw-command"
  /\ IsProfessor(ev.sock)
  /\ \E k \in DOMAIN rooms :
       /\ History(rooms[k]) # << >>
       /\ BadPath(History(rooms[k])[Len(History(rooms[k]))].path)
       /\ \E i \in DOMAIN out :
            /\ out[i].ev = "draw-command"
            /\ out[i].cmds = << History(rooms[k])[Len(History(rooms[k]))] >>
            /\ Student2 \in out[i].to

(***************************************************************************)
(* Faulting payloads: connection 1 joins as professor and connection 2 as  *)
(* student, with a well-formed payload, with null or with a number where   *)
(* the name belongs; both send draw-command with a payload or with null.   *)
(***************************************************************************)
FaultyProfessorData ==
  { NullPayload,
    [ professorName |-> Num(5), roomKey |-> Str(<<"a", "b", "1">>),
      createIfNotExists |-> Bool(TRUE) ] }
FaultyStudentData ==
  { NullPayload, [ studentName |-> Num(5), roomKey |-> Str(<<"a", "b", "1">>) ] }

NextFaults ==
  \/ \E data \in CoreProfessorData \cup FaultyProfessorData :
       \E gen \in GenFor(data) : JoinRoomAsProfessor(Professor1, data, gen)
  \/ \E data \in CoreStudentData \cup FaultyStudentData : JoinRoomAsStudent(Student2, data)
  \/ \E s \in Sockets, data \in CoreDrawPayloads \cup {NullPayload} : DrawCommand(s, data)
  \/ \E s \in Sockets : Disconnect(s)

SpecFaults == Init /\ [][NextFaults]_vars

\* the try block of the join handler throws on payload data
JoinThrows(data, name) ==
  IF variant = "simple" THEN SimpleJoinThrows(data, name) ELSE MultiJoinThrows(data, name)

DrawThrows(st, s, data) ==
  IF variant = "simple" THEN SimpleDrawThrows(st, s, data) ELSE MultiDrawThrows(st, s, data)

\* the sender is sent an event with code INTERNAL_ERROR
ToldInternalError(r, s) ==
  \E i \in DOMAIN r.out : r.out[i].code = "INTERNAL_ERROR" /\ r.out[i].to = {s}

\* no exception leaves the handler; an uncaught one ends the multi server
\* (process.exit(1)) and is only logged by the simple one
NothingEscapes(r) == EmitsNo(r.out, "uncaughtException")

\* the sessions and the memberships are those of before
RegistriesKept(r) ==
  /\ r.rooms = rooms
  /\ r.userSessions = userSessions
  /\ r.joined = joined

Contained(r, s) == ToldInternalError(r, s) /\ NothingEscapes(r) /\ RegistriesKept(r)

\* every handler call that throws, judged by P
EveryFault(P(_, _)) ==
  \A s \in Actors :
    /\ \A d \in FaultyProfessorData :
         JoinThrows(d, "professorName") => P(HandleJoinRoomAsProfessor(Cur, s, d, Undef), s)
    /\ \A d \in FaultyStudentData :
         JoinThrows(d, "studentName") => P(HandleJoinRoomAsStudent(Cur, s, d), s)
    /\ DrawThrows(Cur, s, NullPayload) => P(HandleDrawCommand(Cur, s, NullPayload), s)

(***************************************************************************)
(* C28: when a handler faults while it processes an event, the fault is    *)
(* contained: the sender is sent an error event with code INTERNAL_ERROR,  *)
(* no exception leaves the handler (so the process keeps serving), and no  *)
(* session and no room membership is changed.                              *)
(***************************************************************************)
C28_FaultsContained == EveryFault(Contained)

\* the part that holds: a fault changes no registry, and no exception
\* leaves a handler of the multi server, whose process would exit on it
KeepsServing(r, s) == RegistriesKept(r) /\ (variant = "multi" => NothingEscapes(r))

FaultsKeepServing == EveryFault(KeepsServing)

\* the simple server has just let the exception of a join with a null
\* payload leave the handler, and has sent the sender nothing
W_C28_ExceptionEscaped ==
  /\ variant = "simple"
  /\ ev.op \in {"join-room-as-professor", "join-room-as-student"}
  /\ out = << Uncaught >>

(***************************************************************************)
(* The room of every session is in the registry: a room is deleted only    *)
(* when no identity is left in it (simple disconnect, grace-period         *)
(* callback, cleanup), and the identity of a session stays in the room of  *)
(* the session until that session's own disconnect.  The branches of       *)
(* draw-command and clear-canvas for a session whose room is gone          *)
(* (permission-denied ROOM_NOT_FOUND and a silent return in the simple     *)
(* server, room-error ROOM_GONE in the multi server) are therefore taken   *)
(* in no reachable state.                                                  *)
(***************************************************************************)
SessionRoomExists ==
  \A s \in DOMAIN userSessions : Has(rooms, userSessions[s].roomKey)

\* the professors plus the students of the room
Headcount(room) == Cardinality(ProfessorsOf(room)) + Cardinality(StudentsOf(room))

\* the count the room stores: userCount (simple); the multi server stores
\* none and adds up the two maps whenever it reports one
StoredCount(room) == IF variant = "simple" THEN room.userCount ELSE MultiTotal(room)

CountEvents == {"room-joined", "user-list-update"}

(***************************************************************************)
(* C30: the occupancy count a room stores, and the count the events of the *)
(* latest handler report for it (userCount of room-joined, total of        *)
(* user-list-update), is the number of professors plus the number of       *)
(* students of that room, after any sequence of joins and disconnects.     *)
(***************************************************************************)
C30_OccupancyCountExact ==
  /\ \A k \in DOMAIN rooms : StoredCount(rooms[k]) = Headcount(rooms[k])
  /\ \A i \in DOMAIN out :
       (out[i].ev \in CountEvents /\ Has(rooms, out[i].key)) =>
         out[i].n = Headcount(rooms[out[i].key])

\* a student has just joined a room of the simple server that has no
\* professor, and is told a count of one more than its students
W_C30_ProfessorCountedInAbsence ==
  /\ variant = "simple"
  /\ ev.op = "join-room-as-student"
  /\ \E k \in DOMAIN rooms :
       /\ rooms[k].professor = Null
       /\ ev.sock \in rooms[k].students
       /\ rooms[k].userCount = 1 + Cardinality(rooms[k].students)
       /\ \E i \in DOMAIN out :
            /\ out[i].ev = "room-joined"
            /\ out[i].to = {ev.sock}
            /\ out[i].key = k
            /\ out[i].n = 1 + Cardinality(rooms[k].students)

(***************************************************************************)
(* Two rooms and changes of room and role: connections 1 and 2 each join   *)
(* rooms AB1 and XY2 under either role, any number of times, and leave;    *)
(* the debug endpoint and the grace-period callbacks run in between.       *)
(***************************************************************************)
Pair == {Professor1, Student2}

RoomsProfessorData ==
  [ professorName : {Str(<<" ", "A", "l", " ">>)},
    roomKey : {Str(<<"a", "b", "1">>), Str(KeyXY2)},
    createIfNotExists : {Bool(TRUE)} ]

NextRooms ==
  \/ \E s \in Pair, data \in RoomsProfessorData :
       \E gen \in GenFor(data) : JoinRoomAsProfessor(s, data, gen)
  \/ \E s \in Pair, data \in JoinStudentData : JoinRoomAsStudent(s, data)
  \/ \E s \in Pair : Disconnect(s)
  \/ \E s \in Pair : BypassPermissions(s)
  \/ \E key \in DOMAIN timers : GraceTimer(key)

SpecRooms == Init /\ [][NextRooms]_vars

(***************************************************************************)
(* C31: in the multi variant a student join succeeds only on a room that   *)
(* has at least one professor at that moment; on a room of the registry    *)
(* with no professor, a draining one included, it is answered with         *)
(* room-error NO_PROFESSOR to the sender alone and changes no registry, no *)
(* socket.io room and no timer.                                            *)
(***************************************************************************)
C31_StudentNeedsProfessor ==
  variant = "multi" =>
    \A s \in Actors : \A d \in JoinStudentData :
      LET r == HandleJoinRoomAsStudent(Cur, s, d)
          k == ToUpperCase(d.roomKey.v)
      IN /\ Emits(r.out, "room-joined", "student", {s}) =>
              (Has(rooms, k) /\ ProfessorsOf(rooms[k]) # {})
         /\ (Has(rooms, k) /\ ProfessorsOf(rooms[k]) = {}) =>
              /\ \A i \in DOMAIN r.out :
                   r.out[i].ev = "room-error" /\ r.out[i].code = "NO_PROFESSOR" /\ r.out[i].to = {s}
              /\ r.out # << >>
              /\ r.rooms = rooms
              /\ r.userSessions = userSessions
              /\ r.joined = joined
              /\ r.timers = timers

\* a student join has just been refused with NO_PROFESSOR while every room
\* of the registry is draining: empty, with its deletion callback pending
W_C31_DrainingRoomRefuses ==
  /\ variant = "multi"
  /\ ev.op = "join-room-as-student"
  /\ Emits(out, "room-error", "NO_PROFESSOR", {ev.sock})
  /\ rooms # << >>
  /\ \A k \in DOMAIN rooms : MultiTotal(rooms[k]) = 0 /\ Has(timers, k)

(***************************************************************************)
(* C32: a room with no professor and no student is in the registry only    *)
(* while it is draining: after every handler, the simple server has no     *)
(* such room at all, and every such room of the multi server has a         *)
(* grace-period deletion callback pending for its key.                     *)
(***************************************************************************)
C32_EmptyRoomsAreDraining ==
  \A k \in DOMAIN rooms :
    Headcount(rooms[k]) = 0 => (variant = "multi" /\ Has(timers, k))

\* a disconnect has just left a room of the multi server with nobody in it
W_C32_RoomDraining ==
  /\ variant = "multi"
  /\ ev.op = "disconnect"
  /\ \E k \in DOMAIN rooms : Headcount(rooms[k]) = 0 /\ Has(timers, k)

\* the professor of a room of the simple server without students has just
\* left, and the room went with them
SimpleRoomWentWithProfessor ==
  /\ variant = "simple"
  /\ ev.op = "disconnect"
  /\ \E i \in DOMAIN out : out[i].ev = "professor-disconnected"
  /\ rooms = << >>

(***************************************************************************)
(* C33: the back-references of the rooms are never stale: every identity   *)
(* recorded as a professor of a room has a session with role professor     *)
(* whose roomKey is that room, and every identity among the students of a  *)
(* room has a session with role student whose roomKey is that room, also   *)
(* after a connection with a session joins another room or under another   *)
(* role.                                                                   *)
(***************************************************************************)
RecordedAs(s, k, role) ==
  /\ Has(userSessions, s)
  /\ userSessions[s].roomKey = k
  /\ userSessions[s].role = role

C33_BackReferencesFresh ==
  \A k \in DOMAIN rooms :
    /\ \A s \in ProfessorsOf(rooms[k]) : RecordedAs(s, k, "professor")
    /\ \A s \in StudentsOf(rooms[k]) : RecordedAs(s, k, "student")

\* a connection recorded in room AB1 has just joined room XY2XY2: its
\* session names the new room and the old room still names the connection
W_C33_LeftBehindInOldRoom ==
  /\ ev.op \in {"join-room-as-professor", "join-room-as-student"}
  /\ Has(userSessions, ev.sock)
  /\ userSessions[ev.sock].roomKey = KeyXY2
  /\ Has(rooms, KeyAB1)
  /\ ev.sock \in ProfessorsOf(rooms[KeyAB1]) \cup StudentsOf(rooms[KeyAB1])

(***************************************************************************)
(* Socket and timer events only, over two rooms: connections 1 and 2 join  *)
(* rooms AB1 and XY2 under either role, draw, clear and leave, and the     *)
(* grace-period callbacks and the cleanup run in between.  The debug       *)
(* endpoint is not called.                                                 *)
(***************************************************************************)
\* draw commands accepted in a behaviour of the two rooms
MaxEventDraws == 1

NextEvents ==
  \/ \E s \in Pair, data \in RoomsProfessorData :
       \E gen \in GenFor(data) : JoinRoomAsProfessor(s, data, gen)
  \/ \E s \in Pair, data \in JoinStudentData : JoinRoomAsStudent(s, data)
  \/ \E s \in Pair, data \in CoreDrawPayloads : now < MaxEventDraws /\ DrawCommand(s, data)
  \/ \E s \in Pair : ClearCanvas(s)
  \/ \E s \in Pair : Disconnect(s)
  \/ \E key \in DOMAIN timers : GraceTimer(key)
  \/ \E inactive \in Sweeps : Janitor(inactive)

SpecEvents == Init /\ [][NextEvents]_vars

(***************************************************************************)
(* C34: through join, draw, clear, disconnect and timer events, every      *)
(* session references a room that is in the registry, and that room        *)
(* records the session's connection where the role of the session says: as *)
(* a professor for role professor, among the students for role student.    *)
(* So no draw-command and no clear-canvas is answered from a               *)
(* room-not-found branch.                                                  *)
(***************************************************************************)
C34_SessionsAreRecorded ==
  /\ \A s \in DOMAIN userSessions :
       LET k == userSessions[s].roomKey
       IN /\ Has(rooms, k)
          /\ userSessions[s].role = "professor" => s \in ProfessorsOf(rooms[k])
          /\ userSessions[s].role = "student" => s \in StudentsOf(rooms[k])
  /\ ev.op \in {"draw-command", "clear-canvas"} =>
       \A i \in DOMAIN out : out[i].code \notin {"ROOM_NOT_FOUND", "ROOM_GONE"}

\* a professor who changed from room AB1 to room XY2XY2, and is still
\* recorded in AB1, has just had a draw-command stored in XY2XY2
W_C34_DrawnAfterChangeOfRoom ==
  /\ ev.op = "draw-command"
  /\ IsProfessor(ev.sock)
  /\ userSessions[ev.sock].roomKey = KeyXY2
  /\ History(rooms[KeyXY2]) # << >>
  /\ Has(rooms, KeyAB1)
  /\ ev.sock \in ProfessorsOf(rooms[KeyAB1])

RoomEvents == {"draw-command", "canvas-cleared", "user-list-update"}

(***************************************************************************)
(* C35: rooms are isolated for delivery: a draw-command, canvas-cleared or *)
(* user-list-update event produced for a room is delivered only to         *)
(* connections whose session references that room, also when a connection  *)
(* joined another room before on the same transport connection.            *)
(***************************************************************************)
C35_DeliveredToTheRoomOnly ==
  \A i \in DOMAIN out :
    out[i].ev \in RoomEvents =>
      \A t \in out[i].to :
        Has(userSessions, t) /\ userSessions[t].roomKey = out[i].key

\* a draw-command of room AB1 has just been delivered to a connection that
\* has changed to room XY2XY2
W_C35_DrawingLeaksToFormerMember ==
  /\ ev.op = "draw-command"
  /\ \E i \in DOMAIN out :
       /\ out[i].ev = "draw-command"
       /\ out[i].key = KeyAB1
       /\ out[i].cmds # << >>
       /\ \E t \in out[i].to :
            /\ t # ev.sock
            /\ Has(userSessions, t)
            /\ userSessions[t].roomKey = KeyXY2

\* the connections whose session has role professor and references room k
ProfessorSessionsOf(k) ==
  { s \in DOMAIN userSessions :
      userSessions[s].role = "professor" /\ userSessions[s].roomKey = k }

(***************************************************************************)
(* C36: in the simple variant at most one session with role professor      *)
(* references a room at any time, and when there is one its connection is  *)
(* the one in the professor slot of the room.                              *)
(***************************************************************************)
C36_OneProfessorSession ==
  variant = "simple" =>
    \A k \in DOMAIN rooms :
      /\ Cardinality(ProfessorSessionsOf(k)) <= 1
      /\ \A s \in ProfessorSessionsOf(k) : rooms[k].professor = s

\* the debug endpoint has just given the professor role to the session of
\* a student of a room whose professor is present
W_C36_TwoProfessorSessions ==
  /\ variant = "simple"
  /\ ev.op = "bypass-permissions"
  /\ \E k \in DOMAIN rooms :
       /\ Cardinality(ProfessorSessionsOf(k)) = 2
       /\ ev.sock \in ProfessorSessionsOf(k)
       /\ ev.sock \in rooms[k].students
       /\ rooms[k].professor \in ProfessorSessionsOf(k) \ {ev.sock}

(***************************************************************************)
(* The debug endpoint among the events: connection 1 joins as professor    *)
(* only and connection 2 as student only; both draw, clear and leave, and  *)
(* an HTTP client posts to /debug/bypass-permissions for either.           *)
(***************************************************************************)
NextBypass ==
  \/ \E data \in CoreProfessorData :
       \E gen \in GenFor(data) : JoinRoomAsProfessor(Professor1, data, gen)
  \/ \E data \in CoreStudentData : JoinRoomAsStudent(Student2, data)
  \/ \E s \in Pair, data \in CoreDrawPayloads : DrawCommand(s, data)
  \/ \E s \in Pair : ClearCanvas(s)
  \/ \E s \in Pair : Disconnect(s)
  \/ \E s \in Pair : BypassPermissions(s)

SpecBypass == Init /\ [][NextBypass]_vars

\* the role of the session of s, "" without a session
RoleOf(sessions, s) == IF Has(sessions, s) THEN sessions[s].role ELSE ""

\* the step is a successful join of connection s under role role
OwnJoin(s, role) ==
  /\ ev'.op \in {"join-room-as-professor", "join-room-as-student"}
  /\ ev'.sock = s
  /\ Emits(out', "room-joined", role, {s})

RoleStep ==
  \A s \in Sockets :
    (RoleOf(userSessions', s) # RoleOf(userSessions, s) /\ RoleOf(userSessions', s) # "")
      => OwnJoin(s, RoleOf(userSessions', s))

(***************************************************************************)
(* C37: the role of a session changes only through a successful join sent  *)
(* by the connection of that session; so a connection whose session has    *)
(* role student has no draw and no clear accepted before it completes a    *)
(* professor join of its own.                                              *)
(***************************************************************************)
C37_RoleChangesByOwnJoin == [][RoleStep]_vars

\* connection 2, which has only ever joined as a student, has just had a
\* draw-command stored under its identity
W_C37_StudentHasDrawn ==
  /\ ev.op = "draw-command"
  /\ ev.sock = Student2
  /\ \E k \in DOMAIN rooms :
       /\ Student2 \in StudentsOf(rooms[k])
       /\ Student2 \notin ProfessorsOf(rooms[k])
       /\ History(rooms[k]) # << >>
       /\ Sender(History(rooms[k])[Len(History(rooms[k]))]) = Student2

\* the professors and the students of every room of the registry rms
Membership(rms) ==
  [ k \in DOMAIN rms |->
      [ professors |-> ProfessorsOf(rms[k]), students |-> StudentsOf(rms[k]) ] ]

\* the second of two equal joins leaves the members of every room, and so
\* the occupancy, as the first left them
SameMembers(first, twice) == Membership(twice.rooms) = Membership(first.rooms)

(***************************************************************************)
(* C38: joining is idempotent for membership: when a connection whose join *)
(* has succeeded, and which is thereby a member of the room, repeats the   *)
(* same join event (same role, same room key), the professors and the      *)
(* students of every room, and so the occupancy of the room, are those the *)
(* first join left, and the room holds the connection once.                *)
(***************************************************************************)
C38_JoinIsIdempotent ==
  \A s \in Actors :
    /\ \A d \in RoomsProfessorData :
         LET first == HandleJoinRoomAsProfessor(Cur, s, d, Undef)
             twice == HandleJoinRoomAsProfessor(After(first), s, d, Undef)
         IN Emits(first.out, "room-joined", "professor", {s}) => SameMembers(first, twice)
    /\ \A d \in JoinStudentData :
         LET first == HandleJoinRoomAsStudent(Cur, s, d)
             twice == HandleJoinRoomAsStudent(After(first), s, d)
         IN Emits(first.out, "room-joined", "student", {s}) => SameMembers(first, twice)

\* connection 1, professor of room AB1 since it created it, has just joined
\* it as professor once more, with the student in it: one professor and one
\* student as before
W_C38_ProfessorJoinedAgain ==
  /\ ev = [op |-> "join-room-as-professor", sock |-> Professor1]
  /\ Emits(out, "room-joined", "professor", {Professor1})
  /\ Has(rooms, KeyAB1)
  /\ ProfessorsOf(rooms[KeyAB1]) = {Professor1}
  /\ StudentsOf(rooms[KeyAB1]) = {Student2}

\* room with the history h in place of its own
WithHistory(room, h) ==
  IF variant = "simple" THEN [room EXCEPT !.history = h] ELSE [room EXCEPT !.commands = h]

\* the result r of a handler run for connection s differs from the current
\* registries at most in the history of the room the session of s names
OnlyOwnHistory(r, s) ==
  /\ r.userSessions = userSessions
  /\ r.joined = joined
  /\ r.timers = timers
  /\ DOMAIN r.rooms = DOMAIN rooms
  /\ \A k \in DOMAIN rooms :
       IF Has(userSessions, s) /\ userSessions[s].roomKey = k
         THEN WithHistory(r.rooms[k], History(rooms[k])) = rooms[k]
         ELSE r.rooms[k] = rooms[k]

(***************************************************************************)
(* C39: the draw-command and clear-canvas handlers change nothing but the  *)
(* history of the room the sender's session references: the members and    *)
(* the occupancy count of every room, the session registry, the socket.io  *)
(* rooms, the pending deletions, the set of room keys and the history of   *)
(* every other room stay as they are.                                      *)
(***************************************************************************)
C39_DrawAndClearTouchOwnHistory ==
  \A s \in Actors :
    /\ \A d \in DrawPayloads : OnlyOwnHistory(HandleDrawCommand(Cur, s, d), s)
    /\ OnlyOwnHistory(HandleClearCanvas(Cur, s), s)

\* the professor of room XY2XY2 has just cleared its canvas while room AB1
\* holds a history and both connections are recorded in rooms
W_C39_ClearedBesideAnotherHistory ==
  /\ ev.op = "clear-canvas"
  /\ IsProfessor(ev.sock)
  /\ userSessions[ev.sock].roomKey = KeyXY2
  /\ Emits(out, "canvas-cleared", "", ToRoom(joined, KeyXY2))
  /\ Has(rooms, KeyAB1)
  /\ History(rooms[KeyAB1]) # << >>
  /\ Cardinality(DOMAIN userSessions) = 2

====
